---- MODULE Spec2Model ----
(***************************************************************************)
(* Model of the TelegramGiftBuyer purchase worker (main.py), the owner     *)
(* handlers that write the configuration file (handlers_main.py,           *)
(* handlers_wizard.py) and the bulk refund optimizer (services/balance.py).*)
(*                                                                         *)
(* The configuration file is the only shared mutable resource.  Every      *)
(* coroutine keeps its own in-memory copy between a load and a save, and   *)
(* coroutines interleave at their await points; the actions below are the  *)
(* segments between two awaits.                                            *)
(***************************************************************************)
EXTENDS Integers, Sequences, FiniteSets, TLC

\* ------------------------------------------------------------------------
\* Bounds of the model
\* ------------------------------------------------------------------------
MaxProfilesInit == 2
MaxCount == 2
MaxLimit == 3
MaxStars == 3

\* ------------------------------------------------------------------------
\* Program constants
\* ------------------------------------------------------------------------
USER_ID == 1
None == "None"
\* normalize_gift stores an absent total_count as 0
AbsentSupply == 0

Max(a, b) == IF a >= b THEN a ELSE b

\* services/config.py DEFAULT_PROFILE, with the bands and the counters the
\* wizard lets the owner choose.
Profile(count, limit, sender) ==
    [NAME |-> None,
     MIN_PRICE |-> 1, MAX_PRICE |-> 3,
     MIN_SUPPLY |-> 1, MAX_SUPPLY |-> 10,
     LIMIT |-> limit, COUNT |-> count,
     TARGET_USER_ID |-> USER_ID,
     SENDER |-> sender,
     BOUGHT |-> 0, SPENT |-> 0, DONE |-> FALSE]

Senders == {"bot", "userbot"}

\* The profiles of a freshly configured owner: counters at zero.
ProfileChoices ==
    {Profile(MaxCount, MaxLimit, s) : s \in Senders}

InitProfileLists ==
    UNION {[1..n -> ProfileChoices] : n \in 1..MaxProfilesInit}

\* The marketplace: gifts as the catalog sources normalise them.
Gift(id, price, supply) == [id |-> id, price |-> price, supply |-> supply]
GiftA == Gift("gA", 3, 5)
GiftB == Gift("gB", 2, 5)
GiftC == Gift("gC", 1, 5)
\* outside the price band, outside the supply band
GiftX == Gift("gX", 4, 5)
GiftZ == Gift("gZ", 2, 50)

\* What get_best_gift_list can return: lists ordered by price descending.
GiftLists == {<<GiftX>>, <<GiftA>>, <<GiftB>>, <<GiftB, GiftC>>, <<GiftZ, GiftC>>}

\* ------------------------------------------------------------------------
\* State
\* ------------------------------------------------------------------------
VARIABLES
    file,        \* the persisted configuration (config.json)
    stars,       \* the balances of the two identities at the platform
    wpc,         \* the worker's position
    wcfg,        \* the worker's local `config`
    wlist,       \* the list object the worker's for loop enumerates
    wi,          \* profile_index (1-based)
    wg,          \* position in filtered_gifts (1-based)
    wgifts,      \* all_gifts of this pass
    wrebound,    \* TRUE once `profile` was rebound to the re-loaded config
    wflags,      \* progress_made, any_success
    wpass,       \* history of the current pass: calls, successes, messages
    hist,        \* history: has any handler written the file
    rf,          \* the refund_all_star_payments call in progress
    co,          \* the calls of the configuration service made so far
    ui           \* the owner's dialogue: FSM state and data, screens, calls

vars == <<file, stars, wpc, wcfg, wlist, wi, wg, wgifts, wrebound, wflags,
          wpass, hist, rf, co, ui>>

wvars == <<wpc, wcfg, wlist, wi, wg, wgifts, wrebound, wflags, wpass>>

\* ------------------------------------------------------------------------
\* services/config.py
\* ------------------------------------------------------------------------
UserbotChoices ==
    {[ENABLED |-> FALSE, PHONE |-> None, BALANCE |-> 0],
     [ENABLED |-> TRUE, PHONE |-> "phone", BALANCE |-> 0]}

\* DEFAULT_CONFIG with the owner's profiles, proxy identity and switch.
Config(profiles, userbot, active) ==
    [BALANCE |-> 0, ACTIVE |-> active, DEPOSIT_ENBALE |-> FALSE,
     PROFILES |-> profiles, USERBOT |-> userbot]

\* get_valid_config on a file every writer keeps well typed: validation
\* substitutes nothing, so nothing is saved and the loaded record is returned.
get_valid_config(f) == f

AllDone(cfg) == \A k \in 1..Len(cfg.PROFILES) : cfg.PROFILES[k].DONE

\* ------------------------------------------------------------------------
\* services/balance.py
\* ------------------------------------------------------------------------
has_session(cfg) == cfg.USERBOT.PHONE # None

\* refresh_balance: both cached balances are overwritten from the platform.
refresh_balance(cfg) ==
    [cfg EXCEPT !.BALANCE = stars.bot,
                !.USERBOT.BALANCE = IF has_session(cfg) THEN stars.userbot ELSE 0]

\* change_balance / change_balance_userbot
change_balance(cfg, delta) ==
    [cfg EXCEPT !.BALANCE = Max(0, @ + delta)]

change_balance_userbot(cfg, delta) ==
    [cfg EXCEPT !.USERBOT.BALANCE = Max(0, @ + delta)]

\* ------------------------------------------------------------------------
\* Gift list manager and purchase executors
\* ------------------------------------------------------------------------
\* filter_gifts_by_profile: price inside the profile's band, supply inside
\* its band unless the supply is absent.
GiftMatches(g, profile) ==
    /\ profile.MIN_PRICE <= g.price /\ g.price <= profile.MAX_PRICE
    /\ \/ g.supply = AbsentSupply
       \/ profile.MIN_SUPPLY <= g.supply /\ g.supply <= profile.MAX_SUPPLY

filter_gifts_by_profile(all_gifts, profile) ==
    SelectSeq(all_gifts, LAMBDA g : GiftMatches(g, profile))

\* The platform accepts a gift-send only when the identity can pay for it.
CanPay(sender, price) ==
    \/ sender = "bot" /\ stars.bot >= price
    \/ sender = "userbot" /\ has_session(file) /\ stars.userbot >= price

\* buy_gift / buy_gift_userbot on success: the platform debits the identity
\* and the executor lowers the cached balance.
BuyEffect(sender, price) ==
    IF sender = "bot"
    THEN /\ stars' = [stars EXCEPT !.bot = @ - price]
         /\ file' = change_balance(file, 0 - price)
    ELSE /\ stars' = [stars EXCEPT !.userbot = @ - price]
         /\ file' = change_balance_userbot(file, 0 - price)

\* ------------------------------------------------------------------------
\* main.py gift_purchase_worker
\* ------------------------------------------------------------------------
NewPass(n) ==
    [calls |-> [k \in 1..n |-> 0], oks |-> [k \in 1..n |-> 0],
     diag |-> 0, report |-> 0, alldone |-> 0,
     exc |-> FALSE, ended |-> FALSE]

\* The dict the name `profile` is bound to.
CurProfile == IF wrebound THEN wcfg.PROFILES[wi] ELSE wlist[wi]

COUNT == wlist[wi].COUNT
LIMIT == wlist[wi].LIMIT
filtered_gifts == filter_gifts_by_profile(wgifts, wlist[wi])

\* A while condition that forgets the price of the next unit
MayBuyIgnoringPrice(profile, gift_price) ==
    /\ profile.BOUGHT < COUNT
    /\ profile.SPENT <= LIMIT

\* while condition, main.py:136
MayBuy(profile, gift_price) ==
    /\ profile.BOUGHT < COUNT
    /\ profile.SPENT + gift_price <= LIMIT

\* A completion test that looks at the spending limit only
ReachedByLimitOnly(profile) == profile.SPENT >= LIMIT

\* main.py:180 and main.py:188
Reached(profile) == profile.BOUGHT >= COUNT \/ profile.SPENT >= LIMIT

\* The worker's sleeping points, main.py:90 and main.py:289
BetweenPasses == {"idle", "sleep", "dead"}

InTry == {"load", "fetch", "profile", "gift", "record", "save", "after",
          "dsave", "refresh", "endA", "endB", "endC"}

\* No refund call in progress
NoRefund == [pc |-> "none"]

\* No configuration call recorded, no dialogue open
NoCalls == [pc |-> "none"]
NoDialogue == [pc |-> "none"]

\* Values of the worker's locals while they are dead (between two passes)
NoConfig == Config(<<>>, [ENABLED |-> FALSE, PHONE |-> None, BALANCE |-> 0], FALSE)
NoFlags == [progress_made |-> FALSE, any_success |-> TRUE]

LocalsDead ==
    /\ wcfg' = NoConfig
    /\ wlist' = <<>>
    /\ wi' = 1
    /\ wg' = 1
    /\ wgifts' = <<>>
    /\ wrebound' = FALSE
    /\ wflags' = NoFlags

Init ==
    /\ \E ps \in InitProfileLists, ub \in UserbotChoices, active \in BOOLEAN :
          /\ file = Config(ps, ub, active)
          /\ stars = [bot |-> MaxStars,
                      userbot |-> IF ub.PHONE = None THEN 0 ELSE MaxStars]
    /\ wpc = "start"
    /\ wcfg = NoConfig
    /\ wlist = <<>>
    /\ wi = 1
    /\ wg = 1
    /\ wgifts = <<>>
    /\ wrebound = FALSE
    /\ wflags = NoFlags
    /\ wpass = NewPass(0)
    /\ hist = [writes |-> FALSE]
    /\ rf = NoRefund
    /\ co = NoCalls
    /\ ui = NoDialogue

\* main.py:84, the refresh before the loop
WStart ==
    /\ wpc = "start"
    /\ file' = refresh_balance(file)
    /\ wpc' = "load"
    /\ UNCHANGED <<stars, wcfg, wlist, wi, wg, wgifts, wrebound, wflags, wpass, hist, rf, co, ui>>

\* main.py:84, the platform call of the refresh raises outside the try
WStartRaises ==
    /\ wpc = "start"
    /\ wpc' = "dead"
    /\ UNCHANGED <<file, stars, wcfg, wlist, wi, wg, wgifts, wrebound, wflags, wpass, hist, rf, co, ui>>

\* A worker that starts a pass although ACTIVE is false
WLoadIgnoringActive ==
    /\ wpc = "load"
    /\ ~get_valid_config(file).ACTIVE
    /\ wcfg' = get_valid_config(file)
    /\ wlist' = wcfg'.PROFILES
    /\ wflags' = NoFlags
    /\ wpass' = NewPass(Len(wlist'))
    /\ wpc' = "fetch"
    /\ UNCHANGED <<file, stars, wi, wg, wgifts, wrebound, hist, rf, co, ui>>

\* main.py:87-91, ACTIVE is false: sleep(1) and continue
WLoadInactive ==
    /\ wpc = "load"
    /\ ~get_valid_config(file).ACTIVE
    /\ wcfg' = get_valid_config(file)
    /\ wpc' = "idle"
    /\ UNCHANGED <<file, stars, wlist, wi, wg, wgifts, wrebound, wflags, wpass, hist, rf, co, ui>>

\* main.py:90-91
WIdle ==
    /\ wpc = "idle"
    /\ wpc' = "load"
    /\ LocalsDead
    /\ UNCHANGED <<file, stars, wpass, hist, rf, co, ui>>

\* main.py:87-96, ACTIVE is true: a pass begins
WLoadActive ==
    /\ wpc = "load"
    /\ get_valid_config(file).ACTIVE
    /\ wcfg' = get_valid_config(file)
    /\ wlist' = wcfg'.PROFILES
    /\ wflags' = NoFlags
    /\ wpass' = NewPass(Len(wlist'))
    /\ wpc' = "fetch"
    /\ UNCHANGED <<file, stars, wi, wg, wgifts, wrebound, hist, rf, co, ui>>

\* main.py:99
WFetch ==
    /\ wpc = "fetch"
    /\ \E gl \in GiftLists : wgifts' = gl
    /\ wi' = 1
    /\ wpc' = "profile"
    /\ UNCHANGED <<file, stars, wcfg, wlist, wg, wrebound, wflags, wpass, hist, rf, co, ui>>

\* A skip test without the DONE check of main.py:103
SkipsProfileIgnoringDone ==
    \/ wlist[wi].SENDER = "userbot" /\ ~wcfg.USERBOT.ENABLED
    \/ filtered_gifts = <<>>

\* main.py:103-110 and 122-123: the three reasons to skip a profile
SkipsProfile ==
    \/ wlist[wi].DONE
    \/ wlist[wi].SENDER = "userbot" /\ ~wcfg.USERBOT.ENABLED
    \/ filtered_gifts = <<>>

\* main.py:101-123
WProfileSkip ==
    /\ wpc = "profile"
    /\ wi <= Len(wlist)
    /\ SkipsProfile
    /\ wi' = wi + 1
    /\ UNCHANGED <<file, stars, wpc, wcfg, wlist, wg, wgifts, wrebound, wflags, wpass, hist, rf, co, ui>>

\* main.py:101-127
WProfileEnter ==
    /\ wpc = "profile"
    /\ wi <= Len(wlist)
    /\ ~SkipsProfile
    /\ wg' = 1
    /\ wrebound' = FALSE
    /\ wpc' = "gift"
    /\ UNCHANGED <<file, stars, wcfg, wlist, wi, wgifts, wflags, wpass, hist, rf, co, ui>>

\* main.py:101, the for loop over the profiles is exhausted
WProfilesDone ==
    /\ wpc = "profile"
    /\ wi > Len(wlist)
    /\ wpc' = "endA"
    /\ UNCHANGED <<file, stars, wcfg, wlist, wi, wg, wgifts, wrebound, wflags, wpass, hist, rf, co, ui>>

\* main.py:136-162 with a successful executor call
WBuyOk ==
    /\ wpc = "gift"
    /\ wg <= Len(filtered_gifts)
    /\ MayBuy(CurProfile, filtered_gifts[wg].price)
    /\ CurProfile.SENDER \in {"bot", "userbot"}
    /\ CanPay(CurProfile.SENDER, filtered_gifts[wg].price)
    /\ BuyEffect(CurProfile.SENDER, filtered_gifts[wg].price)
    /\ wpass' = [wpass EXCEPT !.calls[wi] = @ + 1, !.oks[wi] = @ + 1]
    /\ wpc' = "record"
    /\ UNCHANGED <<wcfg, wlist, wi, wg, wgifts, wrebound, wflags, hist, rf, co, ui>>

\* A failed call that leaves the pass unflagged
WBuyFailUnflagged ==
    /\ wpc = "gift"
    /\ wg <= Len(filtered_gifts)
    /\ MayBuy(CurProfile, filtered_gifts[wg].price)
    /\ wpass' = [wpass EXCEPT !.calls[wi] = @ + 1]
    /\ IF Reached(CurProfile)
       THEN wpc' = "after" /\ wg' = wg
       ELSE wpc' = "gift" /\ wg' = wg + 1
    /\ UNCHANGED <<file, stars, wcfg, wlist, wi, wgifts, wrebound, wflags, hist, rf, co, ui>>

\* main.py:136-166 and 180 with a failed executor call: break out of the
\* while loop, then on to the next gift unless the profile reached a bound
WBuyFail ==
    /\ wpc = "gift"
    /\ wg <= Len(filtered_gifts)
    /\ MayBuy(CurProfile, filtered_gifts[wg].price)
    /\ wflags' = [wflags EXCEPT !.any_success = FALSE]
    /\ wpass' = [wpass EXCEPT !.calls[wi] = @ + 1]
    /\ IF Reached(CurProfile)
       THEN wpc' = "after" /\ wg' = wg
       ELSE wpc' = "gift" /\ wg' = wg + 1
    /\ UNCHANGED <<file, stars, wcfg, wlist, wi, wgifts, wrebound, hist, rf, co, ui>>

\* main.py:136 false, then main.py:180
WNoBuy ==
    /\ wpc = "gift"
    /\ wg <= Len(filtered_gifts)
    /\ ~MayBuy(CurProfile, filtered_gifts[wg].price)
    /\ IF Reached(CurProfile)
       THEN wpc' = "after" /\ wg' = wg
       ELSE wpc' = "gift" /\ wg' = wg + 1
    /\ UNCHANGED <<file, stars, wcfg, wlist, wi, wgifts, wrebound, wflags, wpass, hist, rf, co, ui>>

\* main.py:129, the for loop over the gifts is exhausted
WGiftsDone ==
    /\ wpc = "gift"
    /\ wg > Len(filtered_gifts)
    /\ wpc' = "after"
    /\ UNCHANGED <<file, stars, wcfg, wlist, wi, wg, wgifts, wrebound, wflags, wpass, hist, rf, co, ui>>

\* A purchase counted on the record the worker already holds
WRecordStale ==
    /\ wpc = "record"
    /\ wcfg' = [wcfg EXCEPT
                   !.PROFILES[wi].BOUGHT = @ + 1,
                   !.PROFILES[wi].SPENT = @ + filtered_gifts[wg].price]
    /\ wrebound' = TRUE
    /\ wpc' = "save"
    /\ UNCHANGED <<file, stars, wlist, wi, wg, wgifts, wflags, wpass, hist, rf, co, ui>>

\* main.py:168-172: re-load, rebind `profile`, count the purchase
WRecord ==
    /\ wpc = "record"
    /\ wi <= Len(get_valid_config(file).PROFILES)
    /\ wcfg' = [get_valid_config(file) EXCEPT
                   !.PROFILES[wi].BOUGHT = @ + 1,
                   !.PROFILES[wi].SPENT = @ + filtered_gifts[wg].price]
    /\ wrebound' = TRUE
    /\ wpc' = "save"
    /\ UNCHANGED <<file, stars, wlist, wi, wg, wgifts, wflags, wpass, hist, rf, co, ui>>

\* main.py:173-180: save, cooldown, then the limit checks
WSave ==
    /\ wpc = "save"
    /\ file' = wcfg
    /\ wpc' = IF CurProfile.SPENT >= LIMIT THEN "after" ELSE "gift"
    /\ UNCHANGED <<stars, wcfg, wlist, wi, wg, wgifts, wrebound, wflags, wpass, hist, rf, co, ui>>

\* Progress measured against the re-loaded profile instead of the values
\* kept before the purchases
made_local_progress_rebound ==
    \/ CurProfile.BOUGHT > CurProfile.BOUGHT
    \/ CurProfile.SPENT > CurProfile.SPENT

\* main.py:126-127 and 183-185
made_local_progress ==
    \/ CurProfile.BOUGHT > wlist[wi].BOUGHT
    \/ CurProfile.SPENT > wlist[wi].SPENT

\* main.py:188-191: the profile reached a bound: re-load and set DONE
WAfterDone ==
    /\ wpc = "after"
    /\ Reached(CurProfile) /\ ~CurProfile.DONE
    /\ wi <= Len(get_valid_config(file).PROFILES)
    /\ wcfg' = [get_valid_config(file) EXCEPT !.PROFILES[wi].DONE = TRUE]
    /\ wrebound' = TRUE
    /\ wpc' = "dsave"
    /\ UNCHANGED <<file, stars, wlist, wi, wg, wgifts, wflags, wpass, hist, rf, co, ui>>

\* main.py:192-217
WDoneSave ==
    /\ wpc = "dsave"
    /\ file' = wcfg
    /\ wflags' = [wflags EXCEPT !.progress_made = TRUE]
    /\ wpc' = "refresh"
    /\ UNCHANGED <<stars, wcfg, wlist, wi, wg, wgifts, wrebound, wpass, hist, rf, co, ui>>

\* main.py:222-246: partial progress
WAfterPartial ==
    /\ wpc = "after"
    /\ ~(Reached(CurProfile) /\ ~CurProfile.DONE)
    /\ (CurProfile.BOUGHT < COUNT \/ CurProfile.SPENT < LIMIT)
    /\ ~CurProfile.DONE
    /\ made_local_progress
    /\ wflags' = [wflags EXCEPT !.progress_made = TRUE]
    /\ wpc' = "refresh"
    /\ UNCHANGED <<file, stars, wcfg, wlist, wi, wg, wgifts, wrebound, wpass, hist, rf, co, ui>>

\* main.py:188 and 222 both false: on to the next profile
WAfterNone ==
    /\ wpc = "after"
    /\ ~(Reached(CurProfile) /\ ~CurProfile.DONE)
    /\ ~((CurProfile.BOUGHT < COUNT \/ CurProfile.SPENT < LIMIT)
          /\ ~CurProfile.DONE /\ made_local_progress)
    /\ wi' = wi + 1
    /\ wpc' = "profile"
    /\ UNCHANGED <<file, stars, wcfg, wlist, wg, wgifts, wrebound, wflags, wpass, hist, rf, co, ui>>

\* main.py:218-219 and 247-248
WRefresh ==
    /\ wpc = "refresh"
    /\ file' = refresh_balance(file)
    /\ wi' = wi + 1
    /\ wpc' = "profile"
    /\ UNCHANGED <<stars, wcfg, wlist, wg, wgifts, wrebound, wflags, wpass, hist, rf, co, ui>>

\* main.py:250-263: nothing bought, some attempt failed
WDiagnostic ==
    /\ wpc = "endA"
    /\ ~wflags.any_success /\ ~wflags.progress_made
    /\ wcfg' = [wcfg EXCEPT !.ACTIVE = FALSE]
    /\ file' = wcfg'
    /\ wpass' = [wpass EXCEPT !.diag = @ + 1]
    /\ wpc' = "endB"
    /\ UNCHANGED <<stars, wlist, wi, wg, wgifts, wrebound, wflags, hist, rf, co, ui>>

\* main.py:250 false
WNoDiagnostic ==
    /\ wpc = "endA"
    /\ ~(~wflags.any_success /\ ~wflags.progress_made)
    /\ wpc' = "endB"
    /\ UNCHANGED <<file, stars, wcfg, wlist, wi, wg, wgifts, wrebound, wflags, wpass, hist, rf, co, ui>>

\* main.py:266-275: recompute ACTIVE and send the report
WReport ==
    /\ wpc = "endB"
    /\ wflags.progress_made
    /\ wcfg' = [wcfg EXCEPT !.ACTIVE = ~AllDone(wcfg)]
    /\ file' = wcfg'
    /\ wpass' = [wpass EXCEPT !.report = @ + 1]
    /\ wpc' = "endC"
    /\ UNCHANGED <<stars, wlist, wi, wg, wgifts, wrebound, wflags, hist, rf, co, ui>>

\* main.py:266 false
WNoReport ==
    /\ wpc = "endB"
    /\ ~wflags.progress_made
    /\ wpc' = "endC"
    /\ UNCHANGED <<file, stars, wcfg, wlist, wi, wg, wgifts, wrebound, wflags, wpass, hist, rf, co, ui>>

\* An all-done branch that sends its notice without saving the config
WAllDoneNotSaved ==
    /\ wpc = "endC"
    /\ AllDone(wcfg) /\ wcfg.ACTIVE
    /\ wcfg' = [wcfg EXCEPT !.ACTIVE = FALSE]
    /\ wpass' = [wpass EXCEPT !.alldone = @ + 1, !.ended = TRUE]
    /\ wpc' = "sleep"
    /\ UNCHANGED <<file, stars, wlist, wi, wg, wgifts, wrebound, wflags, hist, rf, co, ui>>

\* main.py:277-284: every profile done and still active
WAllDone ==
    /\ wpc = "endC"
    /\ AllDone(wcfg) /\ wcfg.ACTIVE
    /\ wcfg' = [wcfg EXCEPT !.ACTIVE = FALSE]
    /\ file' = wcfg'
    /\ wpass' = [wpass EXCEPT !.alldone = @ + 1, !.ended = TRUE]
    /\ wpc' = "sleep"
    /\ UNCHANGED <<stars, wlist, wi, wg, wgifts, wrebound, wflags, hist, rf, co, ui>>

\* main.py:277 false
WNotAllDone ==
    /\ wpc = "endC"
    /\ ~(AllDone(wcfg) /\ wcfg.ACTIVE)
    /\ wpass' = [wpass EXCEPT !.ended = TRUE]
    /\ wpc' = "sleep"
    /\ UNCHANGED <<file, stars, wcfg, wlist, wi, wg, wgifts, wrebound, wflags, hist, rf, co, ui>>

\* main.py:286-287: an exception raised inside the try is logged
WRaise ==
    /\ wpc \in InTry
    /\ wpass' = [NewPass(0) EXCEPT !.exc = TRUE]
    /\ wpc' = "sleep"
    /\ LocalsDead
    /\ UNCHANGED <<file, stars, hist, rf, co, ui>>

\* main.py:289
WSleep ==
    /\ wpc = "sleep"
    /\ wpc' = "load"
    /\ LocalsDead
    /\ wpass' = NewPass(0)
    /\ UNCHANGED <<file, stars, hist, rf, co, ui>>

Worker ==
    \/ WStart \/ WStartRaises \/ WLoadInactive \/ WIdle \/ WLoadActive
    \/ WFetch \/ WProfileSkip \/ WProfileEnter \/ WProfilesDone
    \/ WBuyOk \/ WBuyFail \/ WNoBuy \/ WGiftsDone \/ WRecord \/ WSave
    \/ WAfterDone \/ WDoneSave \/ WAfterPartial \/ WAfterNone \/ WRefresh
    \/ WDiagnostic \/ WNoDiagnostic \/ WReport \/ WNoReport
    \/ WAllDone \/ WNotAllDone \/ WRaise \/ WSleep

\* ------------------------------------------------------------------------
\* handlers/handlers_main.py, handlers/handlers_wizard.py
\* A handler loads, changes and saves the file without a platform call in
\* between; each is one step.  In this specification the owner acts while
\* the worker sleeps between two passes; the record of the finished pass
\* (wpass and the worker's dead locals) is dropped at the first such event.
\* ------------------------------------------------------------------------
HandlerWrote ==
    /\ wpc \in BetweenPasses
    /\ hist' = [hist EXCEPT !.writes = TRUE]
    /\ wpass' = NewPass(0)
    /\ LocalsDead
    /\ UNCHANGED <<stars, wpc, rf, co, ui>>

\* toggle_active_callback, handlers_main.py:253-255
toggle_active_callback ==
    /\ file' = [get_valid_config(file) EXCEPT !.ACTIVE = ~@]
    /\ HandlerWrote

\* A reset that leaves the switch as it was
ResetCountersOnly(cfg) ==
    [cfg EXCEPT
        !.PROFILES = [k \in 1..Len(@) |->
            [@[k] EXCEPT !.BOUGHT = 0, !.SPENT = 0, !.DONE = FALSE]]]

\* handlers_main.py:229-233: what the reset writes
ResetCounters(cfg) ==
    [cfg EXCEPT
        !.PROFILES = [k \in 1..Len(@) |->
            [@[k] EXCEPT !.BOUGHT = 0, !.SPENT = 0, !.DONE = FALSE]],
        !.ACTIVE = FALSE]

\* reset_bought_callback, handlers_main.py:227-234
reset_bought_callback ==
    /\ file' = ResetCounters(get_valid_config(file))
    /\ HandlerWrote

\* step_edit_count, handlers_wizard.py:1225-1233
step_edit_count ==
    /\ \E idx \in 1..Len(file.PROFILES), value \in 1..MaxCount :
          file' = [get_valid_config(file) EXCEPT !.PROFILES[idx].COUNT = value]
    /\ HandlerWrote

Handler == toggle_active_callback \/ reset_bought_callback \/ step_edit_count

Next == Worker \/ Handler

Spec == Init /\ [][Next]_vars

\* ------------------------------------------------------------------------
\* Properties of the worker
\* ------------------------------------------------------------------------
\* The step in which a purchase executor is called for profile wi
ExecutorCalled ==
    /\ wpc = "gift"
    /\ wi \in DOMAIN wpass.calls
    /\ wpass'.calls = [wpass.calls EXCEPT ![wi] = @ + 1]

\* A pass that began with ACTIVE true has run to its end without an exception
PassEnded == wpc = "sleep" /\ wpass.ended

\* The gifts of the pass that match profile k
GiftsFor(k) == filter_gifts_by_profile(wgifts, wlist[k])

\* Profile k was not skipped in the pass
Entered(k) ==
    /\ ~wlist[k].DONE
    /\ ~(wlist[k].SENDER = "userbot" /\ ~file.USERBOT.ENABLED)
    /\ GiftsFor(k) # <<>>

\* Profile k began the pass with nothing bought, and every call made for it
\* succeeded
FreshAndAllSucceeded(k) ==
    /\ Entered(k)
    /\ wlist[k].BOUGHT = 0 /\ wlist[k].SPENT = 0
    /\ wpass.calls[k] = wpass.oks[k]

\* C1: an executor is called for a profile only when its persisted BOUGHT is
\* below COUNT and its SPENT plus the gift's price is within LIMIT; and as
\* long as nobody but the worker has written the config, every profile has
\* BOUGHT <= COUNT and SPENT <= LIMIT.
C1_CallsGuardedAndBounded ==
    /\ [][ExecutorCalled =>
            /\ file.PROFILES[wi].BOUGHT < file.PROFILES[wi].COUNT
            /\ file.PROFILES[wi].SPENT + filtered_gifts[wg].price
                  <= file.PROFILES[wi].LIMIT]_vars
    /\ [](~hist.writes =>
            \A k \in 1..Len(file.PROFILES) :
                /\ file.PROFILES[k].BOUGHT <= file.PROFILES[k].COUNT
                /\ file.PROFILES[k].SPENT <= file.PROFILES[k].LIMIT)

\* A pass of the worker alone has bought a profile up to its COUNT
C1_Witness ==
    /\ PassEnded /\ ~hist.writes
    /\ \E k \in 1..Len(wlist) :
          /\ wpass.oks[k] > 0
          /\ file.PROFILES[k].BOUGHT = file.PROFILES[k].COUNT

\* C2 as stated: when a fresh profile with one matching gift, every purchase
\* succeeding, stops because another unit would exceed LIMIT, it has bought
\* LIMIT div price units and is marked DONE at the end of the pass.
C2_StopsAtLimitMarkedDone ==
    PassEnded =>
        \A k \in 1..Len(wlist) :
            (/\ FreshAndAllSucceeded(k)
             /\ Len(GiftsFor(k)) = 1
             /\ wlist[k].COUNT * GiftsFor(k)[1].price > wlist[k].LIMIT)
            => /\ file.PROFILES[k].BOUGHT = wlist[k].LIMIT \div GiftsFor(k)[1].price
               /\ file.PROFILES[k].SPENT
                     = GiftsFor(k)[1].price * (wlist[k].LIMIT \div GiftsFor(k)[1].price)
               /\ file.PROFILES[k].DONE

\* C2: in that case the profile has bought LIMIT div price units and spent
\* their price; it is marked DONE exactly when SPENT has reached LIMIT, and
\* otherwise stays not done and the pass reports it.
C2_StopsAtLimit ==
    PassEnded =>
        \A k \in 1..Len(wlist) :
            (/\ FreshAndAllSucceeded(k)
             /\ Len(GiftsFor(k)) = 1
             /\ wlist[k].COUNT * GiftsFor(k)[1].price > wlist[k].LIMIT)
            => /\ file.PROFILES[k].BOUGHT = wlist[k].LIMIT \div GiftsFor(k)[1].price
               /\ file.PROFILES[k].SPENT
                     = GiftsFor(k)[1].price * (wlist[k].LIMIT \div GiftsFor(k)[1].price)
               /\ file.PROFILES[k].DONE <=> file.PROFILES[k].SPENT >= wlist[k].LIMIT
               /\ wpass.report = 1

\* A profile stopped one unit short of LIMIT and was left not done
C2_Witness ==
    /\ PassEnded
    /\ \E k \in 1..Len(wlist) :
          /\ FreshAndAllSucceeded(k)
          /\ Len(GiftsFor(k)) = 1
          /\ wlist[k].COUNT * GiftsFor(k)[1].price > wlist[k].LIMIT
          /\ file.PROFILES[k].BOUGHT >= 1
          /\ file.PROFILES[k].SPENT < wlist[k].LIMIT
          /\ ~file.PROFILES[k].DONE

\* C3: when COUNT units of any matching gift fit into LIMIT and every
\* purchase succeeds, a fresh profile gets exactly COUNT executor calls and
\* COUNT units in the pass and is marked DONE in it.
C3_BuysCountThenDone ==
    PassEnded =>
        \A k \in 1..Len(wlist) :
            (/\ FreshAndAllSucceeded(k)
             /\ \A j \in 1..Len(GiftsFor(k)) :
                    wlist[k].COUNT * GiftsFor(k)[j].price <= wlist[k].LIMIT)
            => /\ wpass.calls[k] = wlist[k].COUNT
               /\ file.PROFILES[k].BOUGHT = wlist[k].COUNT
               /\ file.PROFILES[k].DONE

\* A profile bought COUNT units, more than one, is DONE, and SPENT < LIMIT
C3_Witness ==
    /\ PassEnded
    /\ \E k \in 1..Len(wlist) :
          /\ FreshAndAllSucceeded(k)
          /\ \A j \in 1..Len(GiftsFor(k)) :
                 wlist[k].COUNT * GiftsFor(k)[j].price <= wlist[k].LIMIT
          /\ wlist[k].COUNT > 1
          /\ file.PROFILES[k].BOUGHT = wlist[k].COUNT
          /\ file.PROFILES[k].SPENT < wlist[k].LIMIT
          /\ file.PROFILES[k].DONE

C6_WorkerNeverTerminates == wpc # "dead"

\* C7 as stated: a finished pass with no successful purchase and at least
\* one failed attempt has persisted ACTIVE = false and sent exactly one
\* diagnostic message.
C7_FailedPassDeactivates ==
    (/\ PassEnded
     /\ \A k \in 1..Len(wlist) : wpass.oks[k] = 0
     /\ \E k \in 1..Len(wlist) : wpass.calls[k] > 0)
    => ~file.ACTIVE /\ wpass.diag = 1

\* C8: at the end of a pass that began with ACTIVE true and raised nothing,
\* it is not so that every profile in the file is DONE while the file's
\* ACTIVE is true.
C8_NotAllDoneAndActive ==
    PassEnded =>
        ~(/\ \A k \in 1..Len(file.PROFILES) : file.PROFILES[k].DONE
          /\ file.ACTIVE)

\* The all-done branch has switched the worker off
C8_Witness ==
    /\ PassEnded
    /\ wpass.alldone = 1
    /\ \A k \in 1..Len(file.PROFILES) : file.PROFILES[k].DONE
    /\ ~file.ACTIVE

\* ------------------------------------------------------------------------
\* services/balance.py refund_all_star_payments
\* ------------------------------------------------------------------------
MaxLedger == 4
\* balance.py:185, the largest candidate count searched exhaustively
ExactMax == 18

OwnerName == "owner"
Amounts == {30, 40, 70}
Balances == {0, 50, 100, 180}

\* What one ledger entry can be: a deposit of the owner, a deposit of
\* somebody else, or the refund of the entry before it.
EntryKinds ==
    {[a |-> x, u |-> OwnerName] : x \in Amounts}
      \cup {[a |-> 40, u |-> "other"], [a |-> 0, u |-> None]}

\* A transaction of the ledger; user = None stands for an absent source.
Txn(id, amount, user) == [id |-> id, amount |-> amount, user |-> user]

LedgerOf(kinds) ==
    [i \in 1..Len(kinds) |->
        IF kinds[i].u = None
        THEN Txn(i - 1, IF i > 1 THEN kinds[i - 1].a ELSE 30, None)
        ELSE Txn(i, kinds[i].a, kinds[i].u)]

SmallLedgers ==
    {LedgerOf(ks) : ks \in UNION {[1..n -> EntryKinds] : n \in 0..MaxLedger}}

\* Ledgers with more candidates than the exhaustive search takes.
LongLedgers ==
    {[i \in 1..(ExactMax + 1) |-> Txn(i, IF i % m = 0 THEN x ELSE y, OwnerName)] :
        x \in Amounts, y \in Amounts, m \in 2..3}

SumAmounts(txns) ==
    LET RECURSIVE S(_)
        S(k) == IF k = 0 THEN 0 ELSE S(k - 1) + txns[k].amount
    IN S(Len(txns))

\* balance.py:171-176
deposits(all_txns, username) ==
    SelectSeq(all_txns, LAMBDA t : t.user # None /\ t.user = username)

\* balance.py:177
refunded_ids(all_txns) ==
    {all_txns[i].id : i \in {j \in 1..Len(all_txns) : all_txns[j].user = None}}

\* A filter that forgets which deposits were refunded before
all_deposits(all_txns, username) == deposits(all_txns, username)

\* balance.py:178
unrefunded_deposits(all_txns, username) ==
    SelectSeq(deposits(all_txns, username),
              LAMBDA t : t.id \notin refunded_ids(all_txns))

\* itertools.combinations(range(1..n), r) from position `from` on, in the
\* order itertools yields them
RECURSIVE combinations(_, _, _)
combinations(n, r, from) ==
    IF r = 0 THEN << <<>> >>
    ELSE IF from > n THEN <<>>
    ELSE LET with == combinations(n, r - 1, from + 1)
         IN [k \in 1..Len(with) |-> <<from>> \o with[k]]
              \o combinations(n, r, from + 1)

Pick(cands, idxs) == [k \in 1..Len(idxs) |-> cands[idxs[k]]]

\* An update that keeps the largest sum whether or not the balance covers it
BetterIgnoringBalance(combo, balance, best) ==
    IF SumAmounts(combo) > best.best_sum
    THEN [best_combo |-> combo, best_sum |-> SumAmounts(combo)]
    ELSE best

\* balance.py:188-191
Better(combo, balance, best) ==
    IF SumAmounts(combo) <= balance /\ SumAmounts(combo) > best.best_sum
    THEN [best_combo |-> combo, best_sum |-> SumAmounts(combo)]
    ELSE best

\* balance.py:187-193, the inner loop over the combinations of one size
RECURSIVE ScanCombos(_, _, _, _, _)
ScanCombos(cands, combos, k, balance, best) ==
    IF k > Len(combos) THEN best
    ELSE LET nb == Better(Pick(cands, combos[k]), balance, best)
         IN IF nb.best_sum = balance THEN nb
            ELSE ScanCombos(cands, combos, k + 1, balance, nb)

\* balance.py:186-195, the outer loop over the sizes
RECURSIVE ExactSearch(_, _, _, _)
ExactSearch(cands, r, balance, best) ==
    IF r > Len(cands) THEN best
    ELSE LET nb == ScanCombos(cands, combinations(Len(cands), r, 1), 1, balance, best)
         IN IF nb.best_sum = balance THEN nb
            ELSE ExactSearch(cands, r + 1, balance, nb)

\* list.sort(key=amount, reverse=True): stable, descending
RECURSIVE SortDesc(_)
SortDesc(txns) ==
    IF txns = <<>> THEN <<>>
    ELSE LET rest == SortDesc(Tail(txns))
             x == Head(txns)
             \* x goes before the first element that is strictly smaller,
             \* and before every element equal to it (it came first)
             pos == Cardinality({k \in 1..Len(rest) : rest[k].amount > x.amount})
         IN SubSeq(rest, 1, pos) \o <<x>> \o SubSeq(rest, pos + 1, Len(rest))

\* A test that lets every deposit through
FitsAlways(curr_sum, amount, balance) == amount >= 0

\* balance.py:201
Fits(curr_sum, amount, balance) == curr_sum + amount <= balance

\* balance.py:198-204
RECURSIVE GreedyScan(_, _, _, _)
GreedyScan(sorted, k, balance, acc) ==
    IF k > Len(sorted) THEN acc
    ELSE IF Fits(acc.best_sum, sorted[k].amount, balance)
         THEN GreedyScan(sorted, k + 1, balance,
                         [best_combo |-> Append(acc.best_combo, sorted[k]),
                          best_sum |-> acc.best_sum + sorted[k].amount])
         ELSE GreedyScan(sorted, k + 1, balance, acc)

NoBest == [best_combo |-> <<>>, best_sum |-> 0]

InitRefund ==
    /\ \E b \in Balances, ledger \in SmallLedgers \cup LongLedgers :
          /\ stars = [bot |-> b, userbot |-> 0]
          /\ rf = [pc |-> "start", ledger |-> ledger]
    /\ file = Config(<<Profile(MaxCount, MaxLimit, "bot")>>,
                     [ENABLED |-> FALSE, PHONE |-> None, BALANCE |-> 0], FALSE)
    /\ wpc = "dead"
    /\ wcfg = NoConfig
    /\ wlist = <<>>
    /\ wi = 1
    /\ wg = 1
    /\ wgifts = <<>>
    /\ wrebound = FALSE
    /\ wflags = NoFlags
    /\ wpass = NewPass(0)
    /\ hist = [writes |-> FALSE]
    /\ co = NoCalls
    /\ ui = NoDialogue

\* No suggestion: next_deposit is None, or the key is absent and the caller
\* reads it with .get (handlers_wizard.py:1978)
NoDeposit == [amount |-> 0, id |-> 0]

Result(refunded, ids, left, next) ==
    [refunded |-> refunded, count |-> Len(ids), txn_ids |-> ids,
     left |-> left, next_deposit |-> next]

\* balance.py:154-156: nothing to refund
RfZeroBalance ==
    /\ rf.pc = "start"
    /\ file' = refresh_balance(file)
    /\ file'.BALANCE <= 0
    /\ rf' = [pc |-> "done", ledger |-> rf.ledger, balance |-> file'.BALANCE,
              result |-> Result(0, <<>>, 0, NoDeposit)]
    /\ UNCHANGED <<stars, wvars, hist, co, ui>>

\* balance.py:154-182: refresh, read the ledger, filter the candidates
RfCollect ==
    /\ rf.pc = "start"
    /\ file' = refresh_balance(file)
    /\ file'.BALANCE > 0
    /\ rf' = [pc |-> "select", ledger |-> rf.ledger, balance |-> file'.BALANCE,
              cands |-> unrefunded_deposits(rf.ledger, OwnerName)]
    /\ UNCHANGED <<stars, wvars, hist, co, ui>>

\* balance.py:185-195
RfSelectExact ==
    /\ rf.pc = "select"
    /\ Len(rf.cands) <= ExactMax
    /\ LET best == ExactSearch(rf.cands, 1, rf.balance, NoBest)
       IN rf' = [rf EXCEPT !.pc = "selected"] @@
                [branch |-> "exact", best_combo |-> best.best_combo,
                 best_sum |-> best.best_sum]
    /\ UNCHANGED <<file, stars, wvars, hist, co, ui>>

\* balance.py:196-204: the sort is in place
RfSelectGreedy ==
    /\ rf.pc = "select"
    /\ Len(rf.cands) > ExactMax
    /\ LET sorted == SortDesc(rf.cands)
           best == GreedyScan(sorted, 1, rf.balance, NoBest)
       IN rf' = [rf EXCEPT !.pc = "selected", !.cands = sorted] @@
                [branch |-> "greedy", best_combo |-> best.best_combo,
                 best_sum |-> best.best_sum]
    /\ UNCHANGED <<file, stars, wvars, hist, co, ui>>

\* balance.py:206-207
RfNothingSelected ==
    /\ rf.pc = "selected"
    /\ rf.best_combo = <<>>
    /\ rf' = [rf EXCEPT !.pc = "done"] @@
             [result |-> Result(0, <<>>, rf.balance, NoDeposit)]
    /\ UNCHANGED <<file, stars, wvars, hist, co, ui>>

\* balance.py:210-212
RfBeginRefunds ==
    /\ rf.pc = "selected"
    /\ rf.best_combo # <<>>
    /\ rf' = [rf EXCEPT !.pc = "issue"] @@
             [k |-> 1, total_refunded |-> 0, refund_ids |-> <<>>, calls |-> <<>>]
    /\ UNCHANGED <<file, stars, wvars, hist, co, ui>>

\* balance.py:212-222: the platform accepts the refund
RfIssueOk ==
    /\ rf.pc = "issue"
    /\ rf.k <= Len(rf.best_combo)
    /\ LET txn == rf.best_combo[rf.k]
       IN /\ rf' = [rf EXCEPT !.k = @ + 1,
                              !.total_refunded = @ + txn.amount,
                              !.refund_ids = Append(@, txn.id),
                              !.calls = Append(@, txn.id)]
          /\ stars' = [stars EXCEPT !.bot = @ - txn.amount]
    /\ UNCHANGED <<file, wvars, hist, co, ui>>

\* balance.py:216-225: the platform rejects the refund
RfIssueFail ==
    /\ rf.pc = "issue"
    /\ rf.k <= Len(rf.best_combo)
    /\ rf' = [rf EXCEPT !.k = @ + 1, !.calls = Append(@, rf.best_combo[rf.k].id)]
    /\ UNCHANGED <<file, stars, wvars, hist, co, ui>>

\* balance.py:231-236
find_next_possible_deposit(unused_deposits, min_needed) ==
    LET bigger == SelectSeq(unused_deposits, LAMBDA t : t.amount > min_needed)
    IN IF bigger = <<>> THEN NoDeposit
       ELSE LET first == CHOOSE k \in 1..Len(bigger) :
                           /\ \A j \in 1..Len(bigger) : bigger[k].amount <= bigger[j].amount
                           /\ \A j \in 1..(k - 1) : bigger[j].amount > bigger[k].amount
            IN [amount |-> bigger[first].amount, id |-> bigger[first].id]

\* balance.py:227-249
RfReturn ==
    /\ rf.pc = "issue"
    /\ rf.k > Len(rf.best_combo)
    /\ LET left == rf.balance - rf.best_sum
           unused_deposits ==
               SelectSeq(rf.cands,
                         LAMBDA t : \A k \in 1..Len(rf.best_combo) : rf.best_combo[k] # t)
           next_possible ==
               IF left > 0 /\ unused_deposits # <<>>
               THEN find_next_possible_deposit(unused_deposits, left)
               ELSE NoDeposit
       IN rf' = [rf EXCEPT !.pc = "done"] @@
                [result |-> Result(rf.total_refunded, rf.refund_ids, left, next_possible)]
    /\ UNCHANGED <<file, stars, wvars, hist, co, ui>>

NextRefund ==
    \/ RfZeroBalance \/ RfCollect \/ RfSelectExact \/ RfSelectGreedy
    \/ RfNothingSelected \/ RfBeginRefunds \/ RfIssueOk \/ RfIssueFail
    \/ RfReturn

SpecRefund == InitRefund /\ [][NextRefund]_vars

\* ------------------------------------------------------------------------
\* Properties of the refund optimizer
\* ------------------------------------------------------------------------
\* The selection has been made
Selected == rf.pc \in {"selected", "issue"} \/ (rf.pc = "done" /\ "branch" \in DOMAIN rf)

AmountsOf(txns) == [k \in 1..Len(txns) |-> txns[k].amount]

\* The sum of the candidates at the positions in idxs
SumAt(cands, idxs) ==
    LET RECURSIVE S(_)
        S(k) == IF k = 0 THEN 0
                ELSE S(k - 1) + (IF k \in idxs THEN cands[k].amount ELSE 0)
    IN S(Len(cands))

\* The largest sum of a subset of the candidates that the balance covers
MaxSubsetSum(cands, balance) ==
    LET sums == {SumAt(cands, idxs) : idxs \in SUBSET (1..Len(cands))}
        fit == {x \in sums : x <= balance}
    IN CHOOSE x \in fit : \A y \in fit : y <= x

\* C9: with at most 18 candidates the selected deposits sum to the largest
\* subset sum of the candidate amounts that does not exceed the refreshed
\* balance.
C9_ExactSelectsMaximum ==
    (Selected /\ rf.branch = "exact") =>
        /\ SumAmounts(rf.best_combo) = MaxSubsetSum(rf.cands, rf.balance)
        /\ rf.best_sum = SumAmounts(rf.best_combo)
        /\ rf.pc = "done" /\ rf.best_combo # <<>> => rf.result.left = rf.balance - rf.best_sum

\* Balance 100 and deposits 30, 70, 40: 30 and 70 are selected, nothing left
C9_Witness ==
    /\ rf.pc = "done" /\ "branch" \in DOMAIN rf
    /\ rf.branch = "exact"
    /\ rf.balance = 100
    /\ AmountsOf(rf.cands) = <<30, 70, 40>>
    /\ AmountsOf(rf.best_combo) = <<30, 70>>
    /\ rf.result.left = 0

\* C10: in both branches the selected deposits sum to no more than the
\* refreshed balance; in the greedy branch the candidates are scanned in
\* descending amount and one is selected exactly when it fits on top of
\* those selected before it.
C10_SelectionWithinBalance ==
    Selected =>
        /\ SumAmounts(rf.best_combo) <= rf.balance
        /\ rf.best_sum = SumAmounts(rf.best_combo)
        /\ rf.branch = "greedy" =>
             LET chosen == {rf.best_combo[j].id : j \in 1..Len(rf.best_combo)}
                 taken(k) == {j \in 1..(k - 1) : rf.cands[j].id \in chosen}
             IN /\ \A k \in 1..(Len(rf.cands) - 1) :
                       rf.cands[k].amount >= rf.cands[k + 1].amount
                /\ \A k \in 1..Len(rf.cands) :
                       rf.cands[k].id \in chosen
                          <=> SumAt(rf.cands, taken(k)) + rf.cands[k].amount <= rf.balance
                /\ rf.best_combo =
                       SelectSeq(rf.cands, LAMBDA t : t.id \in chosen)

\* More than 18 candidates, some selected, some skipped, no exact match
C10_Witness ==
    /\ rf.pc = "done" /\ "branch" \in DOMAIN rf
    /\ rf.branch = "greedy"
    /\ Len(rf.cands) > ExactMax
    /\ rf.best_combo # <<>>
    /\ Len(rf.best_combo) < Len(rf.cands)
    /\ rf.best_sum < rf.balance


\* C11: every refund call is for a ledger transaction that is a deposit of
\* the matching username whose id no entry with an absent source carries,
\* and no transaction gets two refund calls in one invocation.
C11_RefundsOnlyOpenDeposits ==
    "calls" \in DOMAIN rf =>
        /\ \A j \in 1..Len(rf.calls) :
              /\ \E i \in 1..Len(rf.ledger) :
                    /\ rf.ledger[i].id = rf.calls[j]
                    /\ rf.ledger[i].user = OwnerName
              /\ \A i \in 1..Len(rf.ledger) :
                    rf.ledger[i].user = None => rf.ledger[i].id # rf.calls[j]
        /\ \A j, l \in 1..Len(rf.calls) : rf.calls[j] = rf.calls[l] => j = l

\* A refund was issued while the ledger also held an already refunded
\* deposit of the owner and a deposit of somebody else, both left alone
C11_Witness ==
    /\ rf.pc = "done" /\ "calls" \in DOMAIN rf
    /\ rf.calls # <<>>
    /\ \E i, m \in 1..Len(rf.ledger) :
          /\ rf.ledger[i].user = OwnerName
          /\ rf.ledger[m].user = None /\ rf.ledger[m].id = rf.ledger[i].id
    /\ \E i \in 1..Len(rf.ledger) : rf.ledger[i].user = "other"

\* ------------------------------------------------------------------------
\* services/config.py: the configuration file as a JSON document
\* ------------------------------------------------------------------------
MaxFaults == 1
MaxCalls == 2

\* JSON values as json.loads returns them, tagged with their Python type
J_int(n) == [t |-> "int", v |-> n]
J_str(x) == [t |-> "str", v |-> x]
J_bool(b) == [t |-> "bool", v |-> b]
J_null == [t |-> "null", v |-> "null"]
J_list(seq) == [t |-> "list", v |-> seq]
J_dict(f) == [t |-> "dict", v |-> f]

\* os.path.exists(path) is false
NoFile == [t |-> "absent", v |-> "absent"]

\* An exception leaves the call
Raise == [t |-> "raise", v |-> "raise"]

\* config.py:164-185
DEFAULT_PROFILE(user_id) ==
    J_dict([NAME |-> J_null,
            MIN_PRICE |-> J_int(5000),
            MAX_PRICE |-> J_int(10000),
            MIN_SUPPLY |-> J_int(1000),
            MAX_SUPPLY |-> J_int(10000),
            LIMIT |-> J_int(1000000),
            COUNT |-> J_int(5),
            TARGET_USER_ID |-> J_int(user_id),
            TARGET_CHAT_ID |-> J_null,
            TARGET_TYPE |-> J_null,
            SENDER |-> J_str("bot"),
            BOUGHT |-> J_int(0),
            SPENT |-> J_int(0),
            DONE |-> J_bool(FALSE)])

\* config.py:200-210
DEFAULT_USERBOT ==
    J_dict([ENABLED |-> J_bool(FALSE),
            API_ID |-> J_null,
            API_HASH |-> J_null,
            PHONE |-> J_null,
            USER_ID |-> J_null,
            USERNAME |-> J_null,
            BALANCE |-> J_int(0),
            CONFIG_ID |-> J_null,
            UPDATE_INTERVAL |-> J_int(45)])

\* config.py:188-211
DEFAULT_CONFIG(user_id) ==
    J_dict([BALANCE |-> J_int(0),
            ACTIVE |-> J_bool(FALSE),
            DEPOSIT_ENBALE |-> J_bool(FALSE),
            LAST_MENU_MESSAGE_ID |-> J_null,
            PROFILES |-> J_list(<<DEFAULT_PROFILE(user_id)>>),
            USERBOT |-> DEFAULT_USERBOT])

\* config.py:215-230: (expected type, None allowed)
PROFILE_TYPES ==
    [NAME |-> <<"str", TRUE>>,
     MIN_PRICE |-> <<"int", FALSE>>,
     MAX_PRICE |-> <<"int", FALSE>>,
     MIN_SUPPLY |-> <<"int", FALSE>>,
     MAX_SUPPLY |-> <<"int", FALSE>>,
     LIMIT |-> <<"int", FALSE>>,
     COUNT |-> <<"int", FALSE>>,
     TARGET_USER_ID |-> <<"int", TRUE>>,
     TARGET_CHAT_ID |-> <<"str", TRUE>>,
     TARGET_TYPE |-> <<"str", TRUE>>,
     SENDER |-> <<"str", TRUE>>,
     BOUGHT |-> <<"int", FALSE>>,
     SPENT |-> <<"int", FALSE>>,
     DONE |-> <<"bool", FALSE>>]

\* config.py:234-241
CONFIG_TYPES ==
    [BALANCE |-> <<"int", FALSE>>,
     ACTIVE |-> <<"bool", FALSE>>,
     DEPOSIT_ENBALE |-> <<"bool", FALSE>>,
     LAST_MENU_MESSAGE_ID |-> <<"int", TRUE>>,
     PROFILES |-> <<"list", FALSE>>,
     USERBOT |-> <<"dict", FALSE>>]

\* isinstance(value, expected_type): bool is a subclass of int
isinstance(value, expected_type) ==
    \/ value.t = expected_type
    \/ expected_type = "int" /\ value.t = "bool"

\* config.py:244-254
is_valid_type(value, expected_type, allow_none) ==
    IF value.t = "null" THEN allow_none ELSE isinstance(value, expected_type)

\* The numeric value Python compares an int or a bool by
NumberOf(x) == IF x.t = "bool" THEN (IF x.v THEN 1 ELSE 0) ELSE x.v

\* Python's == on parsed JSON: True == 1 and False == 0, containers are
\* compared member by member
RECURSIVE PyEq(_, _)
PyEq(a, b) ==
    IF a.t \in {"int", "bool"} /\ b.t \in {"int", "bool"}
    THEN NumberOf(a) = NumberOf(b)
    ELSE IF a.t # b.t THEN FALSE
    ELSE IF a.t = "list"
         THEN /\ Len(a.v) = Len(b.v)
              /\ \A i \in 1..Len(a.v) : PyEq(a.v[i], b.v[i])
    ELSE IF a.t = "dict"
         THEN /\ DOMAIN a.v = DOMAIN b.v
              /\ \A k \in DOMAIN a.v : PyEq(a.v[k], b.v[k])
    ELSE a = b

\* What `for profile in profiles` yields: the elements of a list, the
\* characters of a string, the keys of a dict
Iterate(value) ==
    IF value.t = "list" THEN value.v
    ELSE IF value.t = "str" THEN [i \in 1..Len(value.v) |-> J_str("c")]
    ELSE [i \in 1..Cardinality(DOMAIN value.v) |-> J_str("k")]

\* config.py:293-307.  `key not in profile` raises for a number, a bool and
\* None; it is true for every key on the strings and lists drawn here
validate_profile(profile, user_id) ==
    IF profile.t \in {"int", "bool", "null"} THEN Raise
    ELSE IF profile.t # "dict" THEN DEFAULT_PROFILE(user_id)
    ELSE J_dict([key \in DOMAIN PROFILE_TYPES |->
                    IF \/ key \notin DOMAIN profile.v
                       \/ ~is_valid_type(profile.v[key], PROFILE_TYPES[key][1],
                                         PROFILE_TYPES[key][2])
                    THEN DEFAULT_PROFILE(user_id).v[key]
                    ELSE profile.v[key]])

\* config.py:310-343
validate_config(config, user_id) ==
    IF config.t # "dict" THEN Raise
    ELSE
      LET profiles == IF "PROFILES" \in DOMAIN config.v
                      THEN config.v["PROFILES"] ELSE J_list(<<>>)
          userbot_data == IF "USERBOT" \in DOMAIN config.v
                          THEN config.v["USERBOT"] ELSE J_dict(<<>>)
      IN IF profiles.t \in {"int", "bool", "null"} THEN Raise
         ELSE IF userbot_data.t # "dict" THEN Raise
         ELSE
           LET items == Iterate(profiles)
               valid_profiles == [i \in 1..Len(items) |-> validate_profile(items[i], user_id)]
               valid_userbot ==
                   [sub_key \in DOMAIN DEFAULT_USERBOT.v |->
                       IF sub_key \in DOMAIN userbot_data.v
                       THEN userbot_data.v[sub_key]
                       ELSE DEFAULT_USERBOT.v[sub_key]]
           IN IF \E i \in 1..Len(items) : valid_profiles[i] = Raise THEN Raise
              ELSE J_dict(
                [key \in DOMAIN CONFIG_TYPES |->
                    IF key = "PROFILES"
                    THEN J_list(IF valid_profiles = <<>>
                                THEN <<DEFAULT_PROFILE(user_id)>>
                                ELSE valid_profiles)
                    ELSE IF key = "USERBOT" THEN J_dict(valid_userbot)
                    ELSE IF \/ key \notin DOMAIN config.v
                            \/ ~is_valid_type(config.v[key], CONFIG_TYPES[key][1],
                                              CONFIG_TYPES[key][2])
                         THEN DEFAULT_CONFIG(user_id).v[key]
                         ELSE config.v[key]])

\* A comparison by identity: the validated record is always a new object
is_not(validated, config) == validated.t = config.t

\* config.py:357, `validated != config`
differs(validated, config) == ~PyEq(validated, config)

\* config.py:256-266
ensure_config(f, user_id) == IF f = NoFile THEN DEFAULT_CONFIG(user_id) ELSE f

\* The worker task does not exist and no refund is running
Elsewhere ==
    /\ rf = NoRefund
    /\ stars = [bot |-> 0, userbot |-> 0]
    /\ wpc = "dead"
    /\ wcfg = NoConfig
    /\ wlist = <<>>
    /\ wi = 1
    /\ wg = 1
    /\ wgifts = <<>>
    /\ wrebound = FALSE
    /\ wflags = NoFlags
    /\ wpass = NewPass(0)
    /\ hist = [writes |-> FALSE]

\* --- the documents the file may hold when the service is first called
JsonSamples ==
    {J_int(0), J_int(1), J_str("x"), J_bool(TRUE), J_null,
     J_list(<<>>), J_dict(<<>>)}

\* Set or add key k of a dict
WithKey(d, k, val) ==
    J_dict([x \in DOMAIN d.v \cup {k} |-> IF x = k THEN val ELSE d.v[x]])

\* Remove key k of a dict
WithoutKey(d, k) == J_dict([x \in DOMAIN d.v \ {k} |-> d.v[x]])

\* One departure from a well-typed document: a key removed or given some
\* JSON value; at the top level, in the first profile, in USERBOT; the
\* first profile replaced by a value; an unknown key; the whole document
\* replaced
Faults ==
    {<<"top", k, val>> : k \in DOMAIN CONFIG_TYPES \cup {"EXTRA"},
                         val \in JsonSamples \cup {NoFile}}
      \cup {<<"profile", k, val>> : k \in DOMAIN PROFILE_TYPES,
                                    val \in JsonSamples \cup {NoFile}}
      \cup {<<"userbot", k, val>> : k \in DOMAIN DEFAULT_USERBOT.v,
                                    val \in JsonSamples \cup {NoFile}}
      \cup {<<"entry", "1", val>> : val \in JsonSamples}
      \cup {<<"document", "", val>> : val \in JsonSamples \cup {NoFile}}

Put(d, k, val) == IF val = NoFile THEN WithoutKey(d, k) ELSE WithKey(d, k, val)

ApplyFault(doc, fault) ==
    LET where == fault[1]
        k == fault[2]
        val == fault[3]
    IN IF where = "document" THEN val
       ELSE IF doc.t # "dict" THEN doc
       ELSE IF where = "top" THEN Put(doc, k, val)
       ELSE IF where = "userbot"
            THEN IF "USERBOT" \in DOMAIN doc.v /\ doc.v["USERBOT"].t = "dict"
                 THEN WithKey(doc, "USERBOT", Put(doc.v["USERBOT"], k, val))
                 ELSE doc
       ELSE IF /\ "PROFILES" \in DOMAIN doc.v
               /\ doc.v["PROFILES"].t = "list"
               /\ doc.v["PROFILES"].v # <<>>
            THEN LET ps == doc.v["PROFILES"].v
                     first == IF where = "entry" THEN val
                              ELSE IF ps[1].t = "dict" THEN Put(ps[1], k, val)
                              ELSE ps[1]
                 IN WithKey(doc, "PROFILES", J_list([ps EXCEPT ![1] = first]))
            ELSE doc

RECURSIVE ApplyFaults(_, _)
ApplyFaults(doc, faults) ==
    IF faults = <<>> THEN doc
    ELSE ApplyFaults(ApplyFault(doc, Head(faults)), Tail(faults))

FaultLists == UNION {[1..n -> Faults] : n \in 0..MaxFaults}

InitConfig ==
    /\ \E faults \in FaultLists :
          file = ApplyFaults(DEFAULT_CONFIG(USER_ID), faults)
    /\ co = [pc |-> "ready", rets |-> <<>>, saved |-> <<>>, files |-> <<file>>]
    /\ ui = NoDialogue
    /\ Elsewhere

Returned(validated, saves) ==
    co' = [co EXCEPT !.rets = Append(@, validated),
                     !.saved = Append(@, saves),
                     !.files = Append(@, file')]

\* config.py:346-359 when validate_config raises: ensure_config may have
\* created the file, nothing else is written
GvcRaises ==
    /\ co.pc = "ready" /\ Len(co.rets) < MaxCalls
    /\ validate_config(ensure_config(file, USER_ID), USER_ID) = Raise
    /\ file' = ensure_config(file, USER_ID)
    /\ co' = [co EXCEPT !.pc = "raised"]
    /\ UNCHANGED <<stars, wvars, hist, rf, ui>>

\* config.py:346-359 when the validated record differs from the loaded one
GvcRepairs ==
    /\ co.pc = "ready" /\ Len(co.rets) < MaxCalls
    /\ LET config == ensure_config(file, USER_ID)
           validated == validate_config(config, USER_ID)
       IN /\ validated # Raise
          /\ differs(validated, config)
          /\ file' = validated
          /\ Returned(validated, TRUE)
    /\ UNCHANGED <<stars, wvars, hist, rf, ui>>

\* config.py:346-359 when the validated record equals the loaded one
GvcClean ==
    /\ co.pc = "ready" /\ Len(co.rets) < MaxCalls
    /\ LET config == ensure_config(file, USER_ID)
           validated == validate_config(config, USER_ID)
       IN /\ validated # Raise
          /\ ~differs(validated, config)
          /\ file' = config
          /\ Returned(validated, FALSE)
    /\ UNCHANGED <<stars, wvars, hist, rf, ui>>

NextConfig == GvcRaises \/ GvcRepairs \/ GvcClean

SpecConfig == InitConfig /\ [][NextConfig]_vars

\* ------------------------------------------------------------------------
\* Properties of the configuration service
\* ------------------------------------------------------------------------
\* The declared type, None where it is allowed; a JSON true is not an int
Declared(value, type) ==
    IF value.t = "null" THEN type[2] ELSE value.t = type[1]

\* The types of the proxy identity's fields
USERBOT_DECLARED ==
    [ENABLED |-> <<"bool", FALSE>>,
     API_ID |-> <<"int", TRUE>>,
     API_HASH |-> <<"str", TRUE>>,
     PHONE |-> <<"str", TRUE>>,
     USER_ID |-> <<"int", TRUE>>,
     USERNAME |-> <<"str", TRUE>>,
     BALANCE |-> <<"int", FALSE>>,
     CONFIG_ID |-> <<"int", TRUE>>,
     UPDATE_INTERVAL |-> <<"int", FALSE>>]

WellTyped(config) ==
    /\ config.t = "dict"
    /\ \A key \in DOMAIN CONFIG_TYPES :
          key \in DOMAIN config.v /\ Declared(config.v[key], CONFIG_TYPES[key])
    /\ config.v["PROFILES"].v # <<>>
    /\ \A i \in 1..Len(config.v["PROFILES"].v) :
          LET profile == config.v["PROFILES"].v[i]
          IN /\ profile.t = "dict"
             /\ \A key \in DOMAIN PROFILE_TYPES :
                   key \in DOMAIN profile.v
                      /\ Declared(profile.v[key], PROFILE_TYPES[key])
    /\ \A key \in DOMAIN USERBOT_DECLARED :
          /\ key \in DOMAIN config.v["USERBOT"].v
          /\ Declared(config.v["USERBOT"].v[key], USERBOT_DECLARED[key])

\* C12 as stated: get_valid_config never raises, and every record it
\* returns has every top-level, profile and USERBOT field of its declared
\* type and at least one profile.
C12_AlwaysWellTyped ==
    /\ co.pc # "raised"
    /\ "rets" \in DOMAIN co => \A i \in 1..Len(co.rets) : WellTyped(co.rets[i])

\* C13: once a call of get_valid_config has returned, the next call returns
\* an equal record, does not save, and leaves the file as it was.
C13_SecondCallChangesNothing ==
    "rets" \in DOMAIN co =>
        \A i \in 2..Len(co.rets) :
            /\ co.rets[i] = co.rets[i - 1]
            /\ ~co.saved[i]
            /\ co.files[i + 1] = co.files[i]

\* A first call repaired and saved the file, a second call has returned
C13_Witness ==
    /\ "rets" \in DOMAIN co
    /\ Len(co.rets) = 2
    /\ co.saved[1]
    /\ co.files[2] # co.files[1]

\* ------------------------------------------------------------------------
\* services/config.py: migration of the legacy flat file at start-up
\* ------------------------------------------------------------------------
\* A file json.loads cannot parse
Corrupt == [t |-> "corrupt", v |-> "corrupt"]

\* config.py:385-389
profile_keys ==
    {"MIN_PRICE", "MAX_PRICE", "MIN_SUPPLY", "MAX_SUPPLY", "COUNT", "LIMIT",
     "TARGET_USER_ID", "TARGET_CHAT_ID", "BOUGHT", "SPENT", "DONE"}

\* dict.get(key, default)
get(d, key, default) == IF key \in DOMAIN d.v THEN d.v[key] ELSE default

\* A setdefault that overwrites the value already there
setdefault_overwriting(d, key, default) == WithKey(d, key, default)

\* dict.setdefault(key, default), config.py:395-399
setdefault(d, key, default) ==
    IF key \in DOMAIN d.v THEN d ELSE WithKey(d, key, default)

\* config.py:384-410: the document written for a legacy document
migrated(config) ==
    LET profile == J_dict([key \in profile_keys \cap DOMAIN config.v |-> config.v[key]])
        p1 == setdefault(profile, "LIMIT", J_int(1000000))
        p2 == setdefault(p1, "SPENT", J_int(0))
        p3 == setdefault(p2, "BOUGHT", J_int(0))
        p4 == setdefault(p3, "DONE", J_bool(FALSE))
        p5 == setdefault(p4, "COUNT", J_int(5))
    IN J_dict([BALANCE |-> get(config, "BALANCE", J_int(0)),
               DEPOSIT_ENBALE |-> get(config, "DEPOSIT_ENBALE", J_bool(FALSE)),
               ACTIVE |-> get(config, "ACTIVE", J_bool(FALSE)),
               LAST_MENU_MESSAGE_ID |-> get(config, "LAST_MENU_MESSAGE_ID", J_null),
               PROFILES |-> J_list(<<p5>>)])

\* The value a legacy installation stored under a key
LegacyValue(key) ==
    CASE key = "MIN_PRICE" -> J_int(5000)
      [] key = "MAX_PRICE" -> J_int(9000)
      [] key = "MIN_SUPPLY" -> J_int(100)
      [] key = "MAX_SUPPLY" -> J_int(200)
      [] key = "COUNT" -> J_int(3)
      [] key = "LIMIT" -> J_int(700)
      [] key = "TARGET_USER_ID" -> J_int(USER_ID)
      [] key = "TARGET_CHAT_ID" -> J_str("@channel")
      [] key = "BOUGHT" -> J_int(2)
      [] key = "SPENT" -> J_int(600)
      [] key = "DONE" -> J_bool(TRUE)
      [] key = "BALANCE" -> J_int(50)
      [] key = "ACTIVE" -> J_bool(TRUE)
      [] OTHER -> J_null

\* Legacy flat documents: any of the profile fields and of two top-level
\* fields present
LegacyFiles ==
    {J_dict([key \in keys |-> LegacyValue(key)]) :
        keys \in SUBSET (profile_keys \cup {"BALANCE"})}

\* What the file may hold when the process starts
StartFiles ==
    LegacyFiles
      \cup {DEFAULT_CONFIG(USER_ID), NoFile, Corrupt}
      \cup {J_dict([PROFILES |-> J_list(<<>>), MIN_PRICE |-> J_int(1)])}
      \cup JsonSamples

InitMigrate ==
    /\ file \in StartFiles
    /\ co = [pc |-> "boot", files |-> <<file>>]
    /\ ui = NoDialogue
    /\ Elsewhere

Migrated == co' = [co EXCEPT !.files = Append(@, file')]

\* config.py:369-370
MigrateNoFile ==
    /\ co.pc = "boot" /\ Len(co.files) <= MaxCalls
    /\ file = NoFile
    /\ file' = file
    /\ Migrated
    /\ UNCHANGED <<stars, wvars, hist, rf, ui>>

\* config.py:372-380
MigrateCorrupt ==
    /\ co.pc = "boot" /\ Len(co.files) <= MaxCalls
    /\ file = Corrupt
    /\ file' = NoFile
    /\ Migrated
    /\ UNCHANGED <<stars, wvars, hist, rf, ui>>

\* config.py:382-383 for a document that is not an object: `in` raises for
\* a number, a bool and None; config.get raises for a list and a string
MigrateRaises ==
    /\ co.pc = "boot" /\ Len(co.files) <= MaxCalls
    /\ file \notin {NoFile, Corrupt} /\ file.t # "dict"
    /\ co' = [co EXCEPT !.pc = "raised"]
    /\ UNCHANGED <<file, stars, wvars, hist, rf, ui>>

\* config.py:382-384
MigrateHasProfiles ==
    /\ co.pc = "boot" /\ Len(co.files) <= MaxCalls
    /\ file.t = "dict" /\ "PROFILES" \in DOMAIN file.v
    /\ file' = file
    /\ Migrated
    /\ UNCHANGED <<stars, wvars, hist, rf, ui>>

\* config.py:385-413
MigrateLegacy ==
    /\ co.pc = "boot" /\ Len(co.files) <= MaxCalls
    /\ file.t = "dict" /\ "PROFILES" \notin DOMAIN file.v
    /\ file' = migrated(file)
    /\ Migrated
    /\ UNCHANGED <<stars, wvars, hist, rf, ui>>

NextMigrate ==
    \/ MigrateNoFile
    \/ MigrateCorrupt
    \/ MigrateRaises
    \/ MigrateHasProfiles
    \/ MigrateLegacy

SpecMigrate == InitMigrate /\ [][NextMigrate]_vars

\* ------------------------------------------------------------------------
\* Properties of the migration
\* ------------------------------------------------------------------------
IsLegacy(doc) == doc.t = "dict" /\ "PROFILES" \notin DOMAIN doc.v

HasProfiles(doc) == doc.t = "dict" /\ "PROFILES" \in DOMAIN doc.v

\* The values the migration fills in for absent fields
FilledIn ==
    [COUNT |-> J_int(5), LIMIT |-> J_int(1000000), SPENT |-> J_int(0),
     BOUGHT |-> J_int(0), DONE |-> J_bool(FALSE)]

\* The profile fields of the legacy schema
LegacyProfileFields ==
    {"MIN_PRICE", "MAX_PRICE", "MIN_SUPPLY", "MAX_SUPPLY", "COUNT", "LIMIT",
     "TARGET_USER_ID", "TARGET_CHAT_ID", "BOUGHT", "SPENT", "DONE"}

MigratedFrom(old, new) ==
    /\ HasProfiles(new)
    /\ new.v["PROFILES"].t = "list"
    /\ Len(new.v["PROFILES"].v) = 1
    /\ LET profile == new.v["PROFILES"].v[1]
       IN /\ profile.t = "dict"
          /\ \A key \in LegacyProfileFields :
                IF key \in DOMAIN old.v
                THEN key \in DOMAIN profile.v /\ profile.v[key] = old.v[key]
                ELSE IF key \in DOMAIN FilledIn
                     THEN key \in DOMAIN profile.v /\ profile.v[key] = FilledIn[key]
                     ELSE key \notin DOMAIN profile.v

\* C16: a run of migrate_config_if_needed on a legacy flat document writes
\* a document with exactly one profile that keeps every legacy profile
\* field present and has COUNT=5, LIMIT=1000000, SPENT=0, BOUGHT=0,
\* DONE=false for the absent ones; a run on a document with PROFILES
\* leaves the file as it is; a second run changes nothing.
C16_MigratesOnce ==
    "files" \in DOMAIN co /\ "rets" \notin DOMAIN co =>
        /\ \A i \in 1..(Len(co.files) - 1) :
              /\ IsLegacy(co.files[i]) => MigratedFrom(co.files[i], co.files[i + 1])
              /\ HasProfiles(co.files[i]) => co.files[i + 1] = co.files[i]
        /\ Len(co.files) >= 3 => co.files[3] = co.files[2]

\* Two runs on a legacy file with MIN_PRICE and MAX_PRICE and no COUNT
C16_Witness ==
    /\ "files" \in DOMAIN co /\ "rets" \notin DOMAIN co
    /\ Len(co.files) = 3
    /\ IsLegacy(co.files[1])
    /\ DOMAIN co.files[1].v = {"MIN_PRICE", "MAX_PRICE"}
    /\ co.files[2].v["PROFILES"].v[1].v["MIN_PRICE"] = J_int(5000)
    /\ co.files[2].v["PROFILES"].v[1].v["COUNT"] = J_int(5)

\* ------------------------------------------------------------------------
\* handlers/handlers_wizard.py: the profiles menu, the new-profile wizard,
\* the edit-price, edit-supply and edit-sender flows, the removal of a
\* profile.  One action is one handler run to its end; the owner is the
\* only user of the dialogue.
\* ------------------------------------------------------------------------
MaxPresses == 4
WizardPresses == 2
MAX_PROFILES == 4

\* The numbers the owner types when many buttons are pressed, and when few
\* are
FewNumbers == {1}
SomeNumbers == {1, 2}

\* A message that int() rejects or that is not positive
BadText == 0

\* FSMContext after state.clear()
NoState == "none"
NoData == J_dict(<<>>)

\* The inline keyboards a message can carry
Menu(count) == <<"menu", count>>
EditKeyboard(idx) == <<"edit", idx>>
ConfirmKeyboard(idx) == <<"confirm", idx>>
SenderKeyboard == <<"sender", 0>>

\* config["PROFILES"] of a validated record
ProfilesOf(config) == config.v["PROFILES"].v

\* config.py:346-359: the record returned and the file after the call
Read(f) ==
    LET config == ensure_config(f, USER_ID)
        validated == validate_config(config, USER_ID)
    IN [config |-> validated,
        file |-> IF differs(validated, config) THEN validated ELSE config]

\* config["PROFILES"] replaced in the record
WithProfiles(config, profiles) == WithKey(config, "PROFILES", J_list(profiles))

\* config.py:450-461
add_profile(config, profile) ==
    WithProfiles(config, Append(ProfilesOf(config), profile))

\* config.py:464-478, for an index that exists
update_profile(config, index, new_profile) ==
    WithProfiles(config, [ProfilesOf(config) EXCEPT ![index + 1] = new_profile])

\* list.pop(index)
Pop(seq, index) ==
    [i \in 1..(Len(seq) - 1) |-> IF i <= index THEN seq[i] ELSE seq[i + 1]]

\* A removal that leaves the list empty
remove_profile_leaving_none(config, index, user_id) ==
    WithProfiles(config, Pop(ProfilesOf(config), index))

\* config.py:481-498, for an index that exists
remove_profile(config, index, user_id) ==
    LET rest == Pop(ProfilesOf(config), index)
    IN WithProfiles(config, IF rest = <<>> THEN <<DEFAULT_PROFILE(user_id)>> ELSE rest)

\* handlers_wizard.py:634-679: the keyboard of the list sent for a record
profiles_menu(config) == Menu(Len(ProfilesOf(config)))

\* handlers_wizard.py:656-657
HasAddButton(keyboard) == keyboard[1] = "menu" /\ keyboard[2] < MAX_PROFILES

\* handlers_wizard.py:644-654: the rows of a list
HasRow(keyboard, idx) == keyboard[1] = "menu" /\ idx < keyboard[2]

\* The handler's name and what it answered
Did(handler, out) == [handler |-> handler, out |-> out]

\* The dialogue starts when the owner has opened the list of profiles: the
\* file is the default record with one to four default profiles
DefaultProfiles(n) == [i \in 1..n |-> DEFAULT_PROFILE(USER_ID)]

InitDialogue(numbers, sessions, counts) ==
    /\ \E n \in counts :
          /\ file = WithProfiles(DEFAULT_CONFIG(USER_ID), DefaultProfiles(n))
          /\ ui = [pc |-> "idle", state |-> NoState, data |-> NoData,
                   chat |-> {profiles_menu(file)}, pressed |-> Menu(0),
                   started |-> 0, numbers |-> numbers, sessions |-> sessions,
                   last |-> Did("on_profiles_menu", "menu")]
    /\ co = NoCalls
    /\ Elsewhere

\* One profile, few buttons pressed, several numbers to type
InitWizard == InitDialogue(SomeNumbers, WizardPresses, {1})

\* One to four profiles, more buttons pressed, one number to type
InitProfiles == InitDialogue(FewNumbers, MaxPresses, 1..MAX_PROFILES)

\* One or two profiles, as many buttons pressed
InitFewProfiles == InitDialogue(FewNumbers, MaxPresses, {1, 2})

\* A button may still be pressed
MayPress == ui.started < ui.sessions

\* A button is pressed
Pressing == [ui EXCEPT !.started = @ + 1]

\* Nothing but the file and the dialogue changes
DialogueOnly == UNCHANGED <<stars, wvars, hist, rf, co>>

\* handlers_wizard.py:682-689
on_profiles_menu ==
    LET read == Read(file)
    IN
    /\ ui.pc = "idle" /\ MayPress
    /\ file' = read.file
    /\ ui' = [Pressing EXCEPT !.chat = @ \cup {profiles_menu(read.config)},
                        !.last = Did("on_profiles_menu", "menu")]
    /\ DialogueOnly

\* handlers_wizard.py:740-755: a row of a displayed list is pressed
on_profile_edit ==
    LET read == Read(file)
    IN
    /\ ui.pc = "idle" /\ MayPress
    /\ \E keyboard \in ui.chat, idx \in 0..MAX_PROFILES :
          /\ HasRow(keyboard, idx)
          /\ file' = read.file
          /\ IF idx >= Len(ProfilesOf(read.config))
             THEN ui' = [Pressing EXCEPT !.last = Did("on_profile_edit", "raised")]
             ELSE ui' = [Pressing EXCEPT
                    !.data = WithKey(@, "profile_index", J_int(idx)),
                    !.chat = (@ \ {keyboard}) \cup {EditKeyboard(idx)},
                    !.last = Did("on_profile_edit", "shown")]
    /\ DialogueOnly

\* handlers_wizard.py:997-1010: Back on a profile's screen
edit_profiles_menu ==
    LET read == Read(file)
    IN
    /\ ui.pc = "idle" /\ MayPress
    /\ \E idx \in 0..MAX_PROFILES :
          /\ EditKeyboard(idx) \in ui.chat
          /\ file' = read.file
          /\ IF idx >= Len(ProfilesOf(read.config))
             THEN ui' = [Pressing EXCEPT !.last = Did("edit_profiles_menu", "raised")]
             ELSE ui' = [Pressing EXCEPT
                    !.chat = (@ \ {EditKeyboard(idx)})
                                \cup {profiles_menu(read.config)},
                    !.last = Did("edit_profiles_menu", "menu")]
    /\ DialogueOnly

\* Python truth of a stored value: None and 0 are false
Truthy(value) == value.t # "null" /\ ~(value.t = "int" /\ value.v = 0)

\* What the owner may type at a step that asks for a number
Texts == ui.numbers \cup {BadText}

\* A wizard step that reads a positive number and moves on:
\* handlers_wizard.py:1541-1562, 1594-1615, 1647-1671, 1673-1704
NumberStep(handler, text, key, next) ==
    IF text <= 0
    THEN [ui EXCEPT !.last = Did(handler, "reprompt")]
    ELSE [ui EXCEPT !.data = WithKey(@, key, J_int(text)),
                    !.state = next,
                    !.last = Did(handler, "next")]

\* A max step that accepts every positive number
BelowMinNever(data, key, value) == data.t # "dict"

\* handlers_wizard.py:1583, 1636, 1069, 1148:
\* `if min_price and value < min_price`
BelowMin(data, key, value) ==
    Truthy(get(data, key, J_null)) /\ value < get(data, key, J_null).v

\* A max step of the new-profile wizard:
\* handlers_wizard.py:1564-1592, 1617-1645
MaxStep(handler, text, min_key, key, next) ==
    IF text <= 0
    THEN [ui EXCEPT !.last = Did(handler, "reprompt")]
    ELSE IF BelowMin(ui.data, min_key, text)
    THEN [ui EXCEPT !.last = Did(handler, "below_min")]
    ELSE [ui EXCEPT !.data = WithKey(@, key, J_int(text)),
                    !.state = next,
                    !.last = Did(handler, "next")]

\* handlers_wizard.py:1354-1365: the add button of a displayed list
on_profile_add ==
    /\ ui.pc = "idle" /\ MayPress
    /\ \E keyboard \in ui.chat : HasAddButton(keyboard)
    /\ ui' = [Pressing EXCEPT !.data = WithKey(@, "profile_index", J_null),
                              !.state = "min_price",
                              !.last = Did("on_profile_add", "prompt")]
    /\ UNCHANGED file
    /\ DialogueOnly

\* handlers_wizard.py:1541-1562
step_min_price ==
    /\ ui.pc = "idle" /\ ui.state = "min_price"
    /\ \E text \in Texts :
          ui' = NumberStep("step_min_price", text, "MIN_PRICE", "max_price")
    /\ UNCHANGED file
    /\ DialogueOnly

\* handlers_wizard.py:1564-1592
step_max_price ==
    /\ ui.pc = "idle" /\ ui.state = "max_price"
    /\ \E text \in Texts :
          ui' = MaxStep("step_max_price", text, "MIN_PRICE", "MAX_PRICE", "min_supply")
    /\ UNCHANGED file
    /\ DialogueOnly

\* handlers_wizard.py:1594-1615
step_min_supply ==
    /\ ui.pc = "idle" /\ ui.state = "min_supply"
    /\ \E text \in Texts :
          ui' = NumberStep("step_min_supply", text, "MIN_SUPPLY", "max_supply")
    /\ UNCHANGED file
    /\ DialogueOnly

\* handlers_wizard.py:1617-1645
step_max_supply ==
    /\ ui.pc = "idle" /\ ui.state = "max_supply"
    /\ \E text \in Texts :
          ui' = MaxStep("step_max_supply", text, "MIN_SUPPLY", "MAX_SUPPLY", "count")
    /\ UNCHANGED file
    /\ DialogueOnly

\* handlers_wizard.py:1647-1671
step_count ==
    /\ ui.pc = "idle" /\ ui.state = "count"
    /\ \E text \in Texts : ui' = NumberStep("step_count", text, "COUNT", "limit")
    /\ UNCHANGED file
    /\ DialogueOnly

\* handlers_wizard.py:1673-1704
step_limit ==
    /\ ui.pc = "idle" /\ ui.state = "limit"
    /\ \E text \in Texts : ui' = NumberStep("step_limit", text, "LIMIT", "user_id")
    /\ UNCHANGED file
    /\ DialogueOnly

\* The recipients the owner may type: a user id, the name of a channel, a
\* name get_chat_type does not know, the name of a user, other text
Recipients == {"digits", "@channel", "@unknown", "@user", "text"}

\* handlers_wizard.py:1403-1416
NewProfileData(data, target_user, target_chat, target_type) ==
    J_dict([MIN_PRICE |-> data.v["MIN_PRICE"],
            MAX_PRICE |-> data.v["MAX_PRICE"],
            MIN_SUPPLY |-> data.v["MIN_SUPPLY"],
            MAX_SUPPLY |-> data.v["MAX_SUPPLY"],
            LIMIT |-> data.v["LIMIT"],
            COUNT |-> data.v["COUNT"],
            TARGET_USER_ID |-> target_user,
            TARGET_CHAT_ID |-> target_chat,
            TARGET_TYPE |-> target_type,
            BOUGHT |-> J_int(0),
            SPENT |-> J_int(0),
            DONE |-> J_bool(FALSE)])

\* handlers_wizard.py:1368-1432
step_user_id ==
    /\ ui.pc = "idle" /\ ui.state = "user_id"
    /\ \E user_input \in Recipients :
          IF user_input \in {"@user", "text"}
          THEN ui' = [ui EXCEPT !.last = Did("step_user_id", "reprompt")]
          ELSE IF {"MIN_PRICE", "MAX_PRICE", "MIN_SUPPLY", "MAX_SUPPLY", "LIMIT",
                   "COUNT"} \subseteq DOMAIN ui.data.v
          THEN LET profile_data ==
                     IF user_input = "digits"
                     THEN NewProfileData(ui.data, J_int(USER_ID), J_null, J_str("user_id"))
                     ELSE IF user_input = "@channel"
                     THEN NewProfileData(ui.data, J_null, J_str("@channel"), J_str("channel"))
                     ELSE NewProfileData(ui.data, J_null, J_str("@unknown"), J_str("username"))
               IN ui' = [ui EXCEPT !.data = WithKey(@, "profile_data", profile_data),
                                   !.state = "gift_sender",
                                   !.chat = @ \cup {SenderKeyboard},
                                   !.last = Did("step_user_id", "next")]
          ELSE ui' = [ui EXCEPT !.last = Did("step_user_id", "raised")]
    /\ UNCHANGED file
    /\ DialogueOnly

\* handlers_wizard.py:1305-1352: a sender button is pressed
save_sender_and_finish ==
    LET read == Read(file)
    IN
    /\ ui.pc = "idle" /\ MayPress /\ SenderKeyboard \in ui.chat
    /\ \E sender \in {"bot", "userbot"} :
          LET profile_data == get(ui.data, "profile_data", J_null)
              idx == get(ui.data, "profile_index", J_null)
              new_profile == WithKey(profile_data, "SENDER", J_str(sender))
              config == read.config
          IN IF profile_data.t = "null"
             THEN /\ file' = file
                  /\ ui' = [Pressing EXCEPT !.state = NoState, !.data = NoData,
                                      !.last = Did("save_sender_and_finish", "error")]
             ELSE IF idx.t = "null"
             THEN /\ file' = Read(add_profile(config, new_profile)).file
                  /\ ui' = [Pressing EXCEPT
                        !.state = NoState, !.data = NoData,
                        !.chat = (@ \ {SenderKeyboard})
                                    \cup {profiles_menu(add_profile(config, new_profile))},
                        !.last = Did("save_sender_and_finish", "created")]
             ELSE IF idx.v >= Len(ProfilesOf(config))
             THEN /\ file' = read.file
                  /\ ui' = [Pressing EXCEPT !.last = Did("save_sender_and_finish", "raised")]
             ELSE /\ file' = update_profile(config, idx.v, new_profile)
                  /\ ui' = [Pressing EXCEPT
                        !.state = NoState, !.data = NoData,
                        !.chat = (@ \ {SenderKeyboard}) \cup {EditKeyboard(idx.v)},
                        !.last = Did("save_sender_and_finish", "updated")]
    /\ DialogueOnly

\* An edit button of a profile's screen that asks for the first number:
\* handlers_wizard.py:804-821, 824-841.  The dialogue and the file after it
EditEntry(handler, idx, state) ==
    LET read == Read(file)
    IN [file |-> read.file,
        ui |-> IF idx >= Len(ProfilesOf(read.config))
               THEN [Pressing EXCEPT
                      !.data = WithKey(@, "profile_index", J_int(idx)),
                      !.last = Did(handler, "raised")]
               ELSE [Pressing EXCEPT
                      !.data = WithKey(@, "profile_index", J_int(idx)),
                      !.state = state,
                      !.last = Did(handler, "prompt")]]

\* handlers_wizard.py:804-821
edit_profile_min_price ==
    /\ ui.pc = "idle" /\ MayPress
    /\ \E idx \in 0..MAX_PROFILES :
          /\ EditKeyboard(idx) \in ui.chat
          /\ ui' = EditEntry("edit_profile_min_price", idx, "edit_min_price").ui
          /\ file' = EditEntry("edit_profile_min_price", idx, "edit_min_price").file
    /\ DialogueOnly

\* handlers_wizard.py:824-841
edit_profile_min_supply ==
    /\ ui.pc = "idle" /\ MayPress
    /\ \E idx \in 0..MAX_PROFILES :
          /\ EditKeyboard(idx) \in ui.chat
          /\ ui' = EditEntry("edit_profile_min_supply", idx, "edit_min_supply").ui
          /\ file' = EditEntry("edit_profile_min_supply", idx, "edit_min_supply").file
    /\ DialogueOnly

\* The first number of an edit flow: handlers_wizard.py:1013-1043, 1092-1122.
\* The dialogue and the file after it
EditMinStep(handler, text, key, next) ==
    LET idx == get(ui.data, "profile_index", Raise)
        read == Read(file)
    IN IF idx.t # "int"
       THEN [ui |-> [ui EXCEPT !.last = Did(handler, "raised")], file |-> file]
       ELSE IF text <= 0
       THEN [ui |-> [ui EXCEPT !.last = Did(handler, "reprompt")], file |-> file]
       ELSE IF idx.v >= Len(ProfilesOf(read.config))
       THEN [ui |-> [ui EXCEPT !.data = WithKey(@, key, J_int(text)),
                               !.last = Did(handler, "raised")],
             file |-> read.file]
       ELSE [ui |-> [ui EXCEPT !.data = WithKey(@, key, J_int(text)),
                               !.state = next,
                               !.last = Did(handler, "next")],
             file |-> read.file]

\* handlers_wizard.py:1013-1043
step_edit_min_price ==
    /\ ui.pc = "idle" /\ ui.state = "edit_min_price"
    /\ \E text \in Texts :
          LET after == EditMinStep("step_edit_min_price", text, "MIN_PRICE", "edit_max_price")
          IN ui' = after.ui /\ file' = after.file
    /\ DialogueOnly

\* handlers_wizard.py:1092-1122
step_edit_min_supply ==
    /\ ui.pc = "idle" /\ ui.state = "edit_min_supply"
    /\ \E text \in Texts :
          LET after == EditMinStep("step_edit_min_supply", text, "MIN_SUPPLY", "edit_max_supply")
          IN ui' = after.ui /\ file' = after.file
    /\ DialogueOnly

\* The two fields written by the second step of an edit flow
WithRange(config, idx, min_key, min_value, max_key, max_value) ==
    update_profile(config, idx,
        WithKey(WithKey(ProfilesOf(config)[idx + 1], min_key, min_value),
                max_key, max_value))

\* The second number of an edit flow: handlers_wizard.py:1046-1089, 1125-1168.
\* The dialogue and the file after it
EditMaxStep(handler, text, min_key, max_key) ==
    LET idx == get(ui.data, "profile_index", Raise)
        read == Read(file)
    IN IF idx.t # "int"
       THEN [ui |-> [ui EXCEPT !.last = Did(handler, "raised")], file |-> file]
       ELSE IF text <= 0
       THEN [ui |-> [ui EXCEPT !.last = Did(handler, "reprompt")], file |-> file]
       ELSE IF BelowMin(ui.data, min_key, text)
       THEN [ui |-> [ui EXCEPT !.last = Did(handler, "below_min")], file |-> file]
       ELSE IF idx.v >= Len(ProfilesOf(read.config)) \/ min_key \notin DOMAIN ui.data.v
       THEN [ui |-> [ui EXCEPT !.last = Did(handler, "raised")], file |-> read.file]
       ELSE [ui |-> [ui EXCEPT !.state = NoState, !.data = NoData,
                               !.chat = @ \cup {EditKeyboard(idx.v)},
                               !.last = Did(handler, "saved")],
             file |-> WithRange(read.config, idx.v, min_key, ui.data.v[min_key],
                                max_key, J_int(text))]

\* handlers_wizard.py:1046-1089
step_edit_max_price ==
    /\ ui.pc = "idle" /\ ui.state = "edit_max_price"
    /\ \E text \in Texts :
          LET after == EditMaxStep("step_edit_max_price", text, "MIN_PRICE", "MAX_PRICE")
          IN ui' = after.ui /\ file' = after.file
    /\ DialogueOnly

\* handlers_wizard.py:1125-1168
step_edit_max_supply ==
    /\ ui.pc = "idle" /\ ui.state = "edit_max_supply"
    /\ \E text \in Texts :
          LET after == EditMaxStep("step_edit_max_supply", text, "MIN_SUPPLY", "MAX_SUPPLY")
          IN ui' = after.ui /\ file' = after.file
    /\ DialogueOnly

\* handlers_wizard.py:936-970
edit_profile_sender ==
    LET read == Read(file)
    IN
    /\ ui.pc = "idle" /\ MayPress
    /\ \E idx \in 0..MAX_PROFILES :
          /\ EditKeyboard(idx) \in ui.chat
          /\ file' = read.file
          /\ IF idx >= Len(ProfilesOf(read.config))
             THEN ui' = [Pressing EXCEPT                                    !.last = Did("edit_profile_sender", "alert")]
             ELSE ui' = [Pressing EXCEPT
                    !.state = "edit_gift_sender",
                    !.data = WithKey(WithKey(@, "profile_data",
                                             ProfilesOf(read.config)[idx + 1]),
                                     "profile_index", J_int(idx)),
                    !.chat = (@ \ {EditKeyboard(idx)}) \cup {SenderKeyboard},
                    !.last = Did("edit_profile_sender", "prompt")]
    /\ DialogueOnly

\* handlers_wizard.py:1453-1483: the delete button of a row
on_profile_delete_confirm ==
    LET read == Read(file)
    IN
    /\ ui.pc = "idle" /\ MayPress
    /\ \E keyboard \in ui.chat, idx \in 0..MAX_PROFILES :
          /\ HasRow(keyboard, idx)
          /\ file' = read.file
          /\ IF idx >= Len(ProfilesOf(read.config))
             THEN ui' = [Pressing EXCEPT                                    !.last = Did("on_profile_delete_confirm", "raised")]
             ELSE ui' = [Pressing EXCEPT
                    !.chat = (@ \ {keyboard}) \cup {ConfirmKeyboard(idx)},
                    !.last = Did("on_profile_delete_confirm", "asked")]
    /\ DialogueOnly

\* handlers_wizard.py:1486-1498: Yes is pressed; up to the save made by
\* remove_profile
on_profile_delete_final ==
    LET read == Read(file)
    IN
    /\ ui.pc = "idle" /\ MayPress
    /\ \E idx \in 0..MAX_PROFILES :
          /\ ConfirmKeyboard(idx) \in ui.chat
          /\ LET config == read.config
                 only_one == Len(ProfilesOf(config)) = 1
                 switched == IF only_one THEN WithKey(config, "ACTIVE", J_bool(FALSE))
                             ELSE config
             IN IF idx >= Len(ProfilesOf(config))
                THEN /\ file' = IF only_one THEN switched ELSE read.file
                     /\ ui' = [Pressing EXCEPT !.last = Did("on_profile_delete_final", "raised")]
                ELSE /\ file' = remove_profile(switched, idx, USER_ID)
                     /\ ui' = [Pressing EXCEPT
                           !.pc = "removed",
                           !.pressed = ConfirmKeyboard(idx),
                           !.last = Did("on_profile_delete_final",
                                        IF only_one THEN "removed_last" ELSE "removed")]
    /\ DialogueOnly

\* handlers_wizard.py:1499-1501: the answer and the new list
on_profile_delete_final_menu ==
    LET read == Read(file)
    IN
    /\ ui.pc = "removed"
    /\ file' = read.file
    /\ ui' = [ui EXCEPT !.pc = "idle",
                        !.pressed = Menu(0),
                        !.chat = (@ \ {ui.pressed}) \cup {profiles_menu(read.config)},
                        !.last = Did("on_profile_delete_final", "menu")]
    /\ DialogueOnly

\* handlers_wizard.py:1504-1512: No is pressed
on_profile_delete_cancel ==
    LET read == Read(file)
    IN
    /\ ui.pc = "idle" /\ MayPress
    /\ \E idx \in 0..MAX_PROFILES :
          /\ ConfirmKeyboard(idx) \in ui.chat
          /\ file' = read.file
          /\ ui' = [Pressing EXCEPT
                !.chat = (@ \ {ConfirmKeyboard(idx)})
                            \cup {profiles_menu(read.config)},
                !.last = Did("on_profile_delete_cancel", "menu")]
    /\ DialogueOnly

\* The id of the home menu message sent last
MenuMessageId == 1

\* handlers_wizard.py:2053-2064: /cancel typed at a step; update_menu reads
\* the validated record and stores the id of the new home menu
try_cancel ==
    LET read == Read(file)
    IN
    /\ ui.pc = "idle" /\ ui.state # NoState
    /\ file' = WithKey(read.file, "LAST_MENU_MESSAGE_ID", J_int(MenuMessageId))
    /\ ui' = [ui EXCEPT !.state = NoState, !.data = NoData,
                        !.last = Did("try_cancel", "cancelled")]
    /\ DialogueOnly

NextWizard ==
    \/ on_profiles_menu
    \/ on_profile_edit
    \/ edit_profiles_menu
    \/ on_profile_add
    \/ step_min_price
    \/ step_max_price
    \/ step_min_supply
    \/ step_max_supply
    \/ step_count
    \/ step_limit
    \/ step_user_id
    \/ save_sender_and_finish
    \/ edit_profile_min_price
    \/ edit_profile_min_supply
    \/ step_edit_min_price
    \/ step_edit_max_price
    \/ step_edit_min_supply
    \/ step_edit_max_supply
    \/ edit_profile_sender
    \/ on_profile_delete_confirm
    \/ on_profile_delete_final
    \/ on_profile_delete_final_menu
    \/ on_profile_delete_cancel
    \/ try_cancel

\* Few buttons pressed, several numbers to type
SpecWizard == InitWizard /\ [][NextWizard]_vars

\* More buttons pressed, one number to type
SpecProfiles == InitProfiles /\ [][NextWizard]_vars

SpecFewProfiles == InitFewProfiles /\ [][NextWizard]_vars

\* ------------------------------------------------------------------------
\* Properties of the profiles dialogue
\* ------------------------------------------------------------------------
PersistedProfiles == file.v["PROFILES"].v

\* C14: whatever the owner does, the persisted PROFILES list is never
\* empty, and when remove_profile has removed the only profile the list is
\* exactly the default profile of the owner.
C14_ProfilesNeverEmpty ==
    "chat" \in DOMAIN ui =>
        /\ PersistedProfiles # <<>>
        /\ ui.last = Did("on_profile_delete_final", "removed_last") =>
              PersistedProfiles = <<DEFAULT_PROFILE(USER_ID)>>

\* remove_profile has just removed a profile the owner had created as the
\* only profile's replacement, or the only default profile
C14_Witness ==
    /\ "chat" \in DOMAIN ui
    /\ ui.pc = "removed"
    /\ ui.last = Did("on_profile_delete_final", "removed_last")
    /\ file.v["ACTIVE"] = J_bool(FALSE)

\* C15 as stated: the persisted PROFILES list never has more than four
\* entries.
C15_AtMostFourProfiles ==
    "chat" \in DOMAIN ui => Len(PersistedProfiles) <= MAX_PROFILES

Ordered(profile) ==
    /\ profile.v["MIN_PRICE"].v <= profile.v["MAX_PRICE"].v
    /\ profile.v["MIN_SUPPLY"].v <= profile.v["MAX_SUPPLY"].v

\* The steps of the new-profile wizard after the maximum was accepted
AfterMaxPrice == {"min_supply", "max_supply", "count", "limit", "user_id", "gift_sender"}

AfterMaxSupply == {"count", "limit", "user_id", "gift_sender"}

RangesOrdered ==
    /\ \A i \in 1..Len(PersistedProfiles) : Ordered(PersistedProfiles[i])
    /\ ui.state \in AfterMaxPrice =>
          ui.data.v["MIN_PRICE"].v <= ui.data.v["MAX_PRICE"].v
    /\ ui.state \in AfterMaxSupply =>
          ui.data.v["MIN_SUPPLY"].v <= ui.data.v["MAX_SUPPLY"].v
    /\ "profile_data" \in DOMAIN ui.data.v => Ordered(ui.data.v["profile_data"])

MaxHandlers ==
    {"step_max_price", "step_max_supply", "step_edit_max_price", "step_edit_max_supply"}

\* A max step that answered that the value is below the minimum left the
\* file, the step and the collected values as they were
RejectionKeepsAll ==
    (ui'.last.handler \in MaxHandlers /\ ui'.last.out = "below_min") =>
        /\ file' = file
        /\ ui'.state = ui.state
        /\ ui'.data = ui.data

\* C17: in the new-profile wizard and in the edit-price and edit-supply
\* flows a maximum below the minimum entered before is answered with a new
\* prompt and changes neither the step, the collected values nor the file;
\* every profile in the file and every profile being collected has
\* MIN_PRICE <= MAX_PRICE and MIN_SUPPLY <= MAX_SUPPLY.
C17_MaxNotBelowMin == [](RangesOrdered) /\ [][RejectionKeepsAll]_vars

\* The edit-price flow has just refused 1 as the maximum after 2 was entered
\* as the minimum
C17_Witness ==
    /\ "chat" \in DOMAIN ui
    /\ ui.last = Did("step_edit_max_price", "below_min")
    /\ ui.state = "edit_max_price"
    /\ ui.data.v["MIN_PRICE"] = J_int(2)

\* ------------------------------------------------------------------------
\* main.py, handlers_main.py, handlers_wizard.py: the commands /start,
\* /withdraw_all and /refund behind the two middlewares.  The middlewares
\* and the guest menu are not part of the sources at hand; they are taken
\* from the description of the system.
\* ------------------------------------------------------------------------
\* A sender who is not the owner
GUEST_ID == 2

\* Who may send an event: the owner and somebody else
FromUsers == {USER_ID, GUEST_ID}

\* An allow-list that admits every sender
ALLOWED_USER_IDS_open == {USER_ID, GUEST_ID}

\* main.py:71-73: both allow-lists receive USER_ID and nothing else
ALLOWED_USER_IDS == {USER_ID}

\* config.py:82-87
get_allowed_users == ALLOWED_USER_IDS

\* main.py:332: events of one sender per command in one window
commands_limits == 10

Commands == {"/start", "/withdraw_all", "/refund"}

\* The texts a /refund message may carry: no arguments, a user id that is
\* not a number, a well-formed command
RefundTexts == {"/refund", "/refund x txn", "/refund 2 txn"}

\* What a handler can do that only the owner may cause
OwnerEffects ==
    {"state_clear", "refresh_balance", "update_menu", "refund_star_payment",
     "save_config", "confirm_keyboard"}

\* The guest menu: one message with the top-up button
show_guest_menu == {"guest_menu"}

\* The counters of the rate limiter, one per sender and command
NoEvents == [user \in FromUsers, command \in Commands |-> 0]

\* Rate limit middleware: owners are exempt, a sender over the limit of a
\* command is not served
OverLimit(seen, user, command) ==
    user \notin ALLOWED_USER_IDS /\ seen[user, command] >= commands_limits

Counted(seen, user, command) ==
    IF user \in ALLOWED_USER_IDS THEN seen
    ELSE [seen EXCEPT ![user, command] = @ + 1]

\* Access control middleware: a sender outside the allow-list gets the guest
\* menu and the handler is not called
Diverted(user) == user \notin ALLOWED_USER_IDS

\* balance.py:74-107 on the stored document, no session of the proxy
\* identity
refresh_balance_json(config) ==
    WithKey(WithKey(config, "USERBOT",
                    WithKey(config.v["USERBOT"], "BALANCE", J_int(0))),
            "BALANCE", J_int(stars.bot))

\* menu.py:75-85, 112-128: the validated read and the id of the new menu
update_menu(f) ==
    WithKey(Read(f).file, "LAST_MENU_MESSAGE_ID", J_int(MenuMessageId))

\* The file and what was done, after one event
Outcome(f, effects) == [file |-> f, effects |-> effects]

\* handlers_main.py:46-60
command_status_handler(user) ==
    IF user \notin get_allowed_users
    THEN Outcome(file, show_guest_menu)
    ELSE Outcome(update_menu(refresh_balance_json(file)),
                 {"state_clear", "refresh_balance", "save_config", "update_menu"})

\* handlers_wizard.py:1917-1945
withdraw_all_handler(user) ==
    IF user \notin get_allowed_users
    THEN Outcome(file, show_guest_menu)
    ELSE IF stars.bot = 0
    THEN Outcome(update_menu(refresh_balance_json(file)),
                 {"refresh_balance", "save_config", "update_menu"})
    ELSE Outcome(refresh_balance_json(file),
                 {"refresh_balance", "save_config", "confirm_keyboard"})

\* handlers_wizard.py:2003-2050
refund_handler(user, text) ==
    IF user \notin get_allowed_users
    THEN Outcome(file, show_guest_menu)
    ELSE IF text = "/refund 2 txn"
    THEN Outcome(update_menu(file), {"refund_star_payment", "save_config", "update_menu"})
    ELSE Outcome(update_menu(file), {"save_config", "update_menu"})

InitAccess ==
    /\ file = DEFAULT_CONFIG(USER_ID)
    /\ \E balance \in {0, 50} : stars = [bot |-> balance, userbot |-> 0]
    /\ ui = [pc |-> "access", seen |-> NoEvents,
             last |-> [user |-> USER_ID, command |-> "none", served |-> FALSE,
                       effects |-> {}]]
    /\ co = NoCalls
    /\ rf = NoRefund
    /\ wpc = "dead"
    /\ wcfg = NoConfig
    /\ wlist = <<>>
    /\ wi = 1
    /\ wg = 1
    /\ wgifts = <<>>
    /\ wrebound = FALSE
    /\ wflags = NoFlags
    /\ wpass = NewPass(0)
    /\ hist = [writes |-> FALSE]

\* One event through main.py:331-340 and its handler
Dispatch(user, command, outcome) ==
    IF OverLimit(ui.seen, user, command)
    THEN /\ file' = file
         /\ ui' = [ui EXCEPT !.last = [user |-> user, command |-> command,
                                       served |-> FALSE, effects |-> {}]]
    ELSE IF Diverted(user)
    THEN /\ file' = file
         /\ ui' = [ui EXCEPT !.seen = Counted(@, user, command),
                             !.last = [user |-> user, command |-> command,
                                       served |-> TRUE, effects |-> show_guest_menu]]
    ELSE /\ file' = outcome.file
         /\ ui' = [ui EXCEPT !.seen = Counted(@, user, command),
                             !.last = [user |-> user, command |-> command,
                                       served |-> TRUE, effects |-> outcome.effects]]

\* /start arrives
start_command ==
    /\ ui.pc = "access"
    /\ \E user \in FromUsers :
          Dispatch(user, "/start", command_status_handler(user))
    /\ UNCHANGED <<stars, wvars, hist, rf, co>>

\* /withdraw_all arrives
withdraw_all_command ==
    /\ ui.pc = "access"
    /\ \E user \in FromUsers :
          Dispatch(user, "/withdraw_all", withdraw_all_handler(user))
    /\ UNCHANGED <<stars, wvars, hist, rf, co>>

\* /refund arrives
refund_command ==
    /\ ui.pc = "access"
    /\ \E user \in FromUsers, text \in RefundTexts :
          Dispatch(user, "/refund", refund_handler(user, text))
    /\ UNCHANGED <<stars, wvars, hist, rf, co>>

\* The window of the rate limiter has passed
window_passed ==
    /\ ui.pc = "access"
    /\ ui.seen # NoEvents
    /\ ui' = [ui EXCEPT !.seen = NoEvents]
    /\ UNCHANGED <<file, stars, wvars, hist, rf, co>>

NextAccess ==
    \/ start_command
    \/ withdraw_all_command
    \/ refund_command
    \/ window_passed

SpecAccess == InitAccess /\ [][NextAccess]_vars

\* ------------------------------------------------------------------------
\* Properties of the access control
\* ------------------------------------------------------------------------
FromGuest(event) == event.user # USER_ID /\ event.command \in Commands

NoOwnerEffect ==
    FromGuest(ui'.last) /\ ui'.last # ui.last =>
        /\ ui'.last.effects \cap OwnerEffects = {}
        /\ file' = file

\* C18 as stated: a command of a sender outside the allow-list has no
\* owner-only effect and the guest menu is shown.
C18_GuestAlwaysSeesGuestMenu ==
    "seen" \in DOMAIN ui /\ FromGuest(ui.last) => ui.last.effects = {"guest_menu"}

\* C18: /start, /withdraw_all and /refund of a sender outside the allow-list
\* refresh no balance, render no home menu, call no refund and write no
\* config; the guest menu is shown for every such command the rate limiter
\* lets through, and nothing is shown for a command over the limit.
C18_GuestHasNoOwnerEffect ==
    /\ []("seen" \in DOMAIN ui /\ FromGuest(ui.last) =>
            /\ ui.last.effects \cap OwnerEffects = {}
            /\ ui.last.served => ui.last.effects = {"guest_menu"}
            /\ ~ui.last.served => ui.last.effects = {})
    /\ [][NoOwnerEffect]_vars

\* A guest was shown the guest menu for /refund and has now sent /start once
\* more than the limit allows, after the owner's /start had refreshed the
\* balance
C18_Witness ==
    /\ "seen" \in DOMAIN ui
    /\ ui.last.user = GUEST_ID /\ ui.last.command = "/start"
    /\ ~ui.last.served
    /\ ui.seen[GUEST_ID, "/refund"] > 0
    /\ file.v["BALANCE"] = J_int(50)

\* ------------------------------------------------------------------------
\* handlers_wizard.py:376-612 and services/userbot.py:238-474: connecting the
\* userbot session (api_id, api_hash, phone, code, password)
\* ------------------------------------------------------------------------
\* Digits the owner types into one code before confirming
MaxDigits == 7

\* handlers_wizard.py:510
MinCodeLen == 4
MaxCodeLen == 6

\* services/userbot.py:374, 456
MaxAttempts == 3

\* The FSM data after state.clear(); get(key, default) of an absent key
\* reads as the value kept here
NoSigninData ==
    [api_id |-> FALSE, api_hash |-> FALSE, phone |-> FALSE,
     current_code |-> 0, code_attempts |-> 0, password_attempts |-> 0]

\* What the owner may send as a text: a well-formed value, anything else,
\* /cancel
SigninTexts == {"ok", "bad", "/cancel"}

\* What app.sign_in and app.get_me answer to a code
CodeVerdicts ==
    {"ok", "PhoneCodeInvalid", "SessionPasswordNeeded", "get_me fails", "Exception"}

\* What app.check_password and app.get_me answer to a password
PasswordVerdicts == {"ok", "PasswordHashInvalid", "get_me fails", "Exception"}

InitSignin ==
    /\ file = DEFAULT_CONFIG(USER_ID)
    /\ ui = [pc |-> "signin", state |-> NoState, data |-> NoSigninData,
             clients |-> "none", run |-> 0, ret |-> <<>>,
             last |-> Did("userbot_menu", "menu")]
    /\ co = NoCalls
    /\ Elsewhere

SigninOnly == UNCHANGED <<stars, wvars, hist, rf, co>>

\* state.clear()
Cleared(u) == [u EXCEPT !.state = NoState, !.data = NoSigninData]

\* handlers_wizard.py:376-383: the button of the menu shown while no session
\* is connected; it answers with a new message, so the menu stays
init_userbot_handler ==
    /\ ui.pc = "signin"
    /\ ui' = [ui EXCEPT !.state = "userbot_api_id", !.run = 0,
                        !.last = Did("init_userbot_handler", "api_id")]
    /\ UNCHANGED file
    /\ SigninOnly

\* try_cancel inside a step of this wizard (handlers_wizard.py:2053-2064)
CancelledSignin(handler) ==
    [Cleared(ui) EXCEPT !.last = Did(handler, "cancelled")]

\* A step that stores one text (handlers_wizard.py:386-430)
TextStep(handler, text, key, next) ==
    CASE text = "/cancel" -> CancelledSignin(handler)
      [] text = "bad" -> [ui EXCEPT !.last = Did(handler, "invalid")]
      [] OTHER -> [ui EXCEPT !.data[key] = TRUE, !.state = next,
                             !.last = Did(handler, "next")]

\* handlers_wizard.py:386-407
get_api_id ==
    /\ ui.pc = "signin" /\ ui.state = "userbot_api_id"
    /\ \E text \in SigninTexts :
          /\ ui' = TextStep("get_api_id", text, "api_id", "userbot_api_hash")
          /\ file' = IF text = "/cancel" THEN update_menu(file) ELSE file
    /\ SigninOnly

\* handlers_wizard.py:410-430
get_api_hash ==
    /\ ui.pc = "signin" /\ ui.state = "userbot_api_hash"
    /\ \E text \in SigninTexts :
          /\ ui' = TextStep("get_api_hash", text, "api_hash", "userbot_phone")
          /\ file' = IF text = "/cancel" THEN update_menu(file) ELSE file
    /\ SigninOnly

\* services/userbot.py:213-218: the device entry is chosen once
create_userbot_client(f) ==
    LET config == Read(f).config
    IN IF config.v["USERBOT"].v["CONFIG_ID"] = J_null
       THEN WithKey(config, "USERBOT",
                    WithKey(config.v["USERBOT"], "CONFIG_ID", J_int(0)))
       ELSE Read(f).file

\* What app.connect and app.send_code answer
StartAnswers == {"sent", "send_code fails", "connect fails"}

\* services/userbot.py:239-303: app.connect() is awaited before the try
\* block, app.send_code inside it; the handle is registered (client,
\* phone_code_hash, phone; not started) once the code has been sent
start_userbot(clients, answer) ==
    CASE answer = "connect fails" -> [ret |-> "raises", clients |-> clients]
      [] answer = "sent" -> [ret |-> "True", clients |-> "pending"]
      [] OTHER -> [ret |-> "False", clients |-> clients]

\* handlers_wizard.py:433-461 with start_userbot (services/userbot.py:238-303)
get_phone ==
    /\ ui.pc = "signin" /\ ui.state = "userbot_phone"
    /\ \E text \in SigninTexts, answer \in StartAnswers :
          CASE text = "/cancel" ->
                  /\ ui' = CancelledSignin("get_phone")
                  /\ file' = update_menu(file)
            [] text = "bad" ->
                  /\ ui' = [ui EXCEPT !.last = Did("get_phone", "invalid")]
                  /\ file' = file
            [] OTHER ->
                  LET started == start_userbot(ui.clients, answer)
                  IN /\ file' = create_userbot_client(file)
                     /\ ui' = CASE started.ret = "True" ->
                                    [ui EXCEPT !.data.phone = TRUE,
                                               !.data.current_code = 0,
                                               !.clients = started.clients,
                                               !.state = "userbot_code",
                                               !.last = Did("get_phone", "code")]
                                [] started.ret = "False" ->
                                    [Cleared(ui) EXCEPT
                                               !.last = Did("get_phone", "failed")]
                                [] OTHER ->
                                    \* the handler has no try block: the step
                                    \* ends with the phone stored and no answer
                                    [ui EXCEPT !.data.phone = TRUE,
                                               !.last = Did("get_phone", "raised")]
    /\ SigninOnly

\* No message handler is registered for ConfigWizard.userbot_code
\* (handlers_wizard.py:464, 483, 501 are callback_query handlers), and the
\* handlers without a state filter take /start, /refund, /withdraw_all and
\* payments only: a text sent at the keypad is dropped by the dispatcher
text_at_code_step ==
    /\ ui.pc = "signin" /\ ui.state = "userbot_code"
    /\ \E text \in SigninTexts :
          ui' = [ui EXCEPT !.last = Did("unhandled", text)]
    /\ UNCHANGED file
    /\ SigninOnly

\* handlers_wizard.py:464-480
on_code_digit ==
    /\ ui.pc = "signin" /\ ui.state = "userbot_code"
    /\ ui.data.current_code < MaxDigits
    /\ ui' = [ui EXCEPT !.data.current_code = @ + 1,
                        !.last = Did("on_code_digit", "digit")]
    /\ UNCHANGED file
    /\ SigninOnly

\* handlers_wizard.py:483-498
on_code_delete ==
    /\ ui.pc = "signin" /\ ui.state = "userbot_code"
    /\ ui' = [ui EXCEPT !.data.current_code = IF @ = 0 THEN 0 ELSE @ - 1,
                        !.last = Did("on_code_delete", "digit")]
    /\ UNCHANGED file
    /\ SigninOnly

\* services/userbot.py:360-368, 437-451: the credentials are stored
signed_in(f) ==
    LET config == Read(f).config
        userbot == config.v["USERBOT"]
    IN WithKey(config, "USERBOT",
         WithKey(WithKey(WithKey(WithKey(WithKey(WithKey(userbot,
            "API_ID", J_int(1)), "API_HASH", J_str("hash")),
            "PHONE", J_str("phone")), "USER_ID", J_int(USER_ID)),
            "USERNAME", J_str("name")), "ENABLED", J_bool(TRUE)))

\* A counter that is read from the FSM data and stored again
\* (services/userbot.py:319, 372-373; 416, 454-455)
attempts_after(data, key) == data[key] + 1

\* services/userbot.py:306-392: the values of each return statement
continue_userbot_signin(clients, verdict, attempts) ==
    IF clients = "none" THEN <<FALSE, FALSE, FALSE>>
    ELSE CASE verdict = "ok" -> <<TRUE, FALSE, FALSE>>
           [] verdict = "get_me fails" -> <<FALSE, FALSE>>
           [] verdict = "PhoneCodeInvalid" /\ attempts < MaxAttempts ->
                 <<FALSE, FALSE, TRUE>>
           [] verdict = "SessionPasswordNeeded" -> <<TRUE, TRUE, FALSE>>
           [] OTHER -> <<FALSE, FALSE, FALSE>>

\* handlers_wizard.py:501-565 with continue_userbot_signin
\* (services/userbot.py:306-392)
on_code_enter ==
    /\ ui.pc = "signin" /\ ui.state = "userbot_code"
    /\ \E verdict \in CodeVerdicts :
        LET attempts == attempts_after(ui.data, "code_attempts")
            ret == continue_userbot_signin(ui.clients, verdict, attempts)
            invalid == ui.clients # "none" /\ verdict = "PhoneCodeInvalid"
        IN
        IF ~(MinCodeLen <= ui.data.current_code /\ ui.data.current_code <= MaxCodeLen)
        THEN /\ ui' = [ui EXCEPT !.last = Did("on_code_enter", "alert")]
             /\ file' = file
        ELSE IF Len(ret) # 3
        THEN \* success, need_password, retry = <two values>
             /\ file' = file
             /\ ui' = [ui EXCEPT !.ret = ret,
                                 !.last = Did("on_code_enter", "raised")]
        ELSE IF ret[3]
        THEN /\ file' = file
             /\ ui' = [ui EXCEPT !.data.code_attempts = attempts,
                                 !.data.current_code = 0,
                                 !.run = @ + 1, !.ret = ret,
                                 !.last = Did("on_code_enter", "retry")]
        ELSE IF ~ret[1]
        THEN /\ file' = file
             /\ ui' = [Cleared(ui) EXCEPT
                            !.run = IF invalid THEN @ + 1 ELSE @, !.ret = ret,
                            !.last = Did("on_code_enter",
                                         IF invalid THEN "final" ELSE "failed")]
        ELSE IF ret[2]
        THEN /\ file' = file
             /\ ui' = [ui EXCEPT !.state = "userbot_password", !.ret = ret,
                                 !.last = Did("on_code_enter", "password")]
        ELSE /\ file' = signed_in(file)
             /\ ui' = [Cleared(ui) EXCEPT !.clients = "started", !.ret = ret,
                                 !.last = Did("on_code_enter", "signed_in")]
    /\ SigninOnly

\* handlers_wizard.py:568-612 with finish_userbot_signin
\* (services/userbot.py:394-474)
get_password ==
    /\ ui.pc = "signin" /\ ui.state = "userbot_password"
    /\ \E text \in SigninTexts \ {"bad"}, verdict \in PasswordVerdicts :
        LET attempts == attempts_after(ui.data, "password_attempts")
        IN
        IF text = "/cancel"
        THEN /\ ui' = CancelledSignin("get_password")
             /\ file' = update_menu(file)
        ELSE IF ui.clients = "none"
        THEN /\ ui' = [Cleared(ui) EXCEPT !.last = Did("get_password", "failed")]
             /\ file' = file
        ELSE CASE verdict = "ok" ->
                  /\ file' = signed_in(file)
                  /\ ui' = [Cleared(ui) EXCEPT !.clients = "started",
                                    !.last = Did("get_password", "signed_in")]
               [] verdict = "PasswordHashInvalid" /\ attempts < MaxAttempts ->
                  /\ file' = file
                  /\ ui' = [ui EXCEPT !.data.password_attempts = attempts,
                                      !.last = Did("get_password", "retry")]
               [] OTHER ->
                  /\ file' = file
                  /\ ui' = [Cleared(ui) EXCEPT !.last = Did("get_password", "failed")]
    /\ SigninOnly

\* services/userbot.py:173-188: the USERBOT entry is replaced as a whole
clear_userbot_config(f) ==
    WithKey(Read(f).config, "USERBOT",
            J_dict([k \in {"API_ID", "API_HASH", "PHONE", "USER_ID",
                           "USERNAME", "ENABLED"} |->
                        IF k = "ENABLED" THEN J_bool(FALSE) ELSE J_null]))

\* services/userbot.py:57-62: a handle is registered and marked started
is_userbot_active_registered(clients) == clients # "none"
is_userbot_active(clients) == clients = "started"

\* handlers_wizard.py:296-311 with delete_userbot_session
\* (services/userbot.py:513-563): the client is stopped if there is one,
\* the entry of the file is cleared, the handle is dropped; the button is
\* on the menu of a connected session, which stays on display
userbot_delete_handler ==
    /\ ui.pc = "signin"
    /\ file' = clear_userbot_config(file)
    /\ ui' = [ui EXCEPT !.clients = "none",
                        !.last = Did("userbot_delete_handler",
                                     IF is_userbot_active(ui.clients)
                                     THEN "stopped" ELSE "removed")]
    /\ SigninOnly

\* handlers_main.py:46-60: /start at any step of the wizard
command_start ==
    /\ ui.pc = "signin"
    /\ file' = command_status_handler(USER_ID).file
    /\ ui' = [Cleared(ui) EXCEPT !.last = Did("command_status_handler", "menu")]
    /\ SigninOnly

NextSignin ==
    \/ init_userbot_handler
    \/ get_api_id
    \/ get_api_hash
    \/ get_phone
    \/ on_code_digit
    \/ on_code_delete
    \/ text_at_code_step
    \/ on_code_enter
    \/ get_password
    \/ userbot_delete_handler
    \/ command_start

SpecSignin == InitSignin /\ [][NextSignin]_vars

\* ------------------------------------------------------------------------
\* Properties of the sign-in wizard
\* ------------------------------------------------------------------------
InSignin == "run" \in DOMAIN ui

Persisted(f) ==
    LET userbot == f.v["USERBOT"].v
    IN /\ userbot["ENABLED"] = J_bool(TRUE)
       /\ userbot["API_ID"] # J_null
       /\ userbot["API_HASH"] # J_null
       /\ userbot["PHONE"] # J_null

\* C19: in one run of the sign-in wizard the first and the second invalid
\* code are answered with a retry at the code step, the third with the final
\* failure that clears the wizard state; an accepted code signs the session
\* in: it is registered as started and the credentials are stored with
\* ENABLED = true (or the password is asked for).
C19_ThirdInvalidCodeIsFinal ==
    InSignin /\ ui.last.handler = "on_code_enter" =>
        /\ ui.last.out = "retry" =>
              ui.run \in {1, 2} /\ ui.state = "userbot_code"
        /\ ui.last.out = "final" =>
              ui.run = MaxAttempts /\ ui.state = NoState /\ ui.data = NoSigninData
        /\ ui.last.out = "signed_in" =>
              ui.clients = "started" /\ Persisted(file) /\ ui.state = NoState
        /\ ui.last.out # "raised"

\* ------------------------------------------------------------------------
\* handlers_catalog.py: the manual purchase from the catalog (gift,
\* quantity, recipient, confirm).  The executor services.buy.buy_gift is not
\* part of the sources at hand; it answers true or false and does not raise.
\* ------------------------------------------------------------------------
\* The largest quantity the owner enters
MaxQty == 3

\* Confirmation messages displayed at the same time
MaxConfirms == 2

\* Prices of the gifts of the catalog
CatalogPrices == {20, 30}

\* The balance of the bot when the owner opens the catalog
CatalogStars == 60

\* The FSM data after state.clear(); 0 stands for an absent key
NoCatalogData ==
    [gifts_catalog |-> FALSE, selected_gift |-> 0, selected_qty |-> 0]

\* The locals of confirm_purchase while it is not running
NoJob ==
    [pos |-> "none", qty |-> 0, price |-> 0, bought |-> 0, calls |-> 0,
     failed |-> FALSE]

\* The message that ends confirm_purchase (handlers_catalog.py:254-264)
Report(job) ==
    [handler |-> "confirm_purchase", out |-> "report",
     bought |-> job.bought, qty |-> job.qty, calls |-> job.calls,
     full |-> job.bought = job.qty]

InitCatalog ==
    /\ file = DEFAULT_CONFIG(USER_ID)
    /\ stars = [bot |-> CatalogStars, userbot |-> 0]
    /\ ui = [pc |-> "catalog", state |-> NoState, data |-> NoCatalogData,
             confirms |-> 0, job |-> NoJob,
             last |-> Did("update_menu", "menu")]
    /\ co = NoCalls
    /\ rf = NoRefund
    /\ wpc = "dead"
    /\ wcfg = NoConfig
    /\ wlist = <<>>
    /\ wi = 1
    /\ wg = 1
    /\ wgifts = <<>>
    /\ wrebound = FALSE
    /\ wflags = NoFlags
    /\ wpass = NewPass(0)
    /\ hist = [writes |-> FALSE]

CatalogOnly == UNCHANGED <<wvars, hist, rf, co>>

\* handlers_catalog.py:60-84
catalog ==
    /\ ui.pc = "catalog"
    /\ ui' = [ui EXCEPT !.data.gifts_catalog = TRUE,
                        !.last = Did("catalog", "catalog")]
    /\ UNCHANGED <<file, stars>>
    /\ CatalogOnly

\* handlers_catalog.py:107-131
on_gift_selected ==
    /\ ui.pc = "catalog"
    /\ \E price \in CatalogPrices :
          ui' = IF ~ui.data.gifts_catalog
                THEN [ui EXCEPT !.last = Did("on_gift_selected", "stale")]
                ELSE [ui EXCEPT !.data.selected_gift = price,
                                !.state = "waiting_quantity",
                                !.last = Did("on_gift_selected", "quantity")]
    /\ UNCHANGED <<file, stars>>
    /\ CatalogOnly

\* state.clear() and the new home menu (handlers_catalog.py:282-292)
CancelCatalog(handler) ==
    /\ ui' = [ui EXCEPT !.state = NoState, !.data = NoCatalogData,
                        !.last = Did(handler, "cancelled")]
    /\ file' = update_menu(file)

\* handlers_catalog.py:134-159: a text that is no positive integer, a
\* message without text (int(None) is caught by `except Exception`), or a
\* quantity
on_quantity_entered ==
    /\ ui.pc = "catalog" /\ ui.state = "waiting_quantity"
    /\ \E text \in {"/cancel", "bad", "none", "number"}, qty \in 1..MaxQty :
          CASE text = "/cancel" -> CancelCatalog("on_quantity_entered")
            [] text \in {"bad", "none"} ->
                  /\ ui' = [ui EXCEPT !.last = Did("on_quantity_entered", "invalid")]
                  /\ file' = file
            [] OTHER ->
                  /\ ui' = [ui EXCEPT !.data.selected_qty = qty,
                                      !.state = "waiting_recipient",
                                      !.last = Did("on_quantity_entered", "recipient")]
                  /\ file' = file
    /\ UNCHANGED stars
    /\ CatalogOnly

\* handlers_catalog.py:162-214
on_recipient_entered ==
    /\ ui.pc = "catalog" /\ ui.state = "waiting_recipient"
    /\ \E text \in {"/cancel", "bad", "none", "ok"} :
          CASE text = "/cancel" -> CancelCatalog("on_recipient_entered")
            [] text = "bad" ->
                  /\ ui' = [ui EXCEPT !.last = Did("on_recipient_entered", "invalid")]
                  /\ file' = file
            [] text = "none" ->
                  \* message.text.strip() of a message without text
                  \* (handlers_catalog.py:171): nothing is answered
                  /\ ui' = [ui EXCEPT !.last = Did("on_recipient_entered", "raised")]
                  /\ file' = file
            [] OTHER ->
                  /\ ui.confirms < MaxConfirms
                  /\ ui' = [ui EXCEPT !.confirms = @ + 1,
                                      !.state = "waiting_confirm",
                                      !.last = Did("on_recipient_entered", "confirm")]
                  /\ file' = file
    /\ UNCHANGED stars
    /\ CatalogOnly

\* handlers_catalog.py:217-234: up to the loop; data["selected_gift"] of
\* cleared data raises at once, data["selected_qty"] after the buttons were
\* removed
confirm_purchase ==
    /\ ui.pc = "catalog" /\ ui.confirms > 0 /\ ui.job.pos = "none"
    /\ ui' = IF ui.data.selected_gift = 0
             THEN [ui EXCEPT !.last = Did("confirm_purchase", "raised")]
             ELSE IF ui.data.selected_qty = 0
             THEN [ui EXCEPT !.confirms = @ - 1,
                             !.last = Did("confirm_purchase", "raised")]
             ELSE [ui EXCEPT !.confirms = @ - 1,
                             !.job = [pos |-> "loop",
                                      qty |-> ui.data.selected_qty,
                                      price |-> ui.data.selected_gift,
                                      bought |-> 0, calls |-> 0, failed |-> FALSE],
                             !.last = Did("confirm_purchase", "buying")]
    /\ UNCHANGED <<file, stars>>
    /\ CatalogOnly

\* balance.py:110-120 on the stored document
change_balance_json(config, delta) ==
    LET balance == config.v["BALANCE"].v + delta
    IN WithKey(config, "BALANCE", J_int(IF balance < 0 THEN 0 ELSE balance))

\* The loop never ends at a failure
LoopNeverBreaks(job) == job.bought < job.qty

\* handlers_catalog.py:237-249: `while bought < qty` and `break`
LoopGoesOn(job) == job.bought < job.qty /\ ~job.failed

\* handlers_catalog.py:238-252: one turn of the loop, the executor called
\* once
confirm_purchase_buy ==
    /\ ui.pc = "catalog" /\ ui.job.pos = "loop"
    /\ LoopGoesOn(ui.job)
    /\ \E accepted \in BOOLEAN :
          IF accepted /\ CanPay("bot", ui.job.price)
          THEN /\ stars' = [stars EXCEPT !.bot = @ - ui.job.price]
               /\ file' = change_balance_json(file, 0 - ui.job.price)
               /\ ui' = [ui EXCEPT !.job.calls = @ + 1, !.job.bought = @ + 1,
                                   !.last = Did("confirm_purchase", "bought")]
          ELSE /\ UNCHANGED <<file, stars>>
               /\ ui' = [ui EXCEPT !.job.calls = @ + 1, !.job.failed = TRUE,
                                   !.last = Did("confirm_purchase", "failed")]
    /\ CatalogOnly

\* handlers_catalog.py:254-268: the report, state.clear(), update_menu
confirm_purchase_report ==
    /\ ui.pc = "catalog" /\ ui.job.pos = "loop"
    /\ ~LoopGoesOn(ui.job)
    /\ ui' = [ui EXCEPT !.state = NoState, !.data = NoCatalogData,
                        !.job = NoJob,
                        !.last = Report(ui.job)]
    /\ file' = update_menu(file)
    /\ UNCHANGED stars
    /\ CatalogOnly

\* handlers_catalog.py:271-279
cancel_callback ==
    /\ ui.pc = "catalog" /\ ui.confirms > 0
    /\ ui' = [ui EXCEPT !.state = NoState, !.data = NoCatalogData,
                        !.confirms = @ - 1,
                        !.last = Did("cancel_callback", "cancelled")]
    /\ file' = update_menu(file)
    /\ UNCHANGED stars
    /\ CatalogOnly

NextCatalog ==
    \/ catalog
    \/ on_gift_selected
    \/ on_quantity_entered
    \/ on_recipient_entered
    \/ confirm_purchase
    \/ confirm_purchase_buy
    \/ confirm_purchase_report
    \/ cancel_callback

SpecCatalog == InitCatalog /\ [][NextCatalog]_vars

\* ------------------------------------------------------------------------
\* Properties of the catalog purchase
\* ------------------------------------------------------------------------
InCatalog == "job" \in DOMAIN ui

Reported == InCatalog /\ ui.last.out = "report"

\* One executor call at a time and none after a failure
OneCallAtATime ==
    InCatalog /\ ui.job.pos = "loop" /\ ui'.job.pos = "loop" =>
        /\ ui'.job.calls \in {ui.job.calls, ui.job.calls + 1}
        /\ ui.job.failed => ui'.job.calls = ui.job.calls

\* The report step clears the wizard state and sends the home menu
ReportClearsAndRefreshes ==
    InCatalog /\ ui.job.pos = "loop" /\ ui'.job.pos = "none" =>
        /\ ui'.state = NoState /\ ui'.data = NoCatalogData
        /\ file' = update_menu(file)
        /\ ui'.last = Report(ui.job)

\* C20: a confirmed purchase of q gifts calls the executor one at a time and
\* stops at the first failure: k successes and a failure are k + 1 calls and
\* the report "k of q", q successes are q calls and the report "q of q"; the
\* report is followed by the cleared wizard state and the new home menu.
C20_StopsAtFirstFailure ==
    /\ [](Reported =>
            /\ ui.last.qty >= 1
            /\ ui.last.bought < ui.last.qty =>
                  ui.last.calls = ui.last.bought + 1 /\ ~ui.last.full
            /\ ui.last.bought >= ui.last.qty =>
                  /\ ui.last.bought = ui.last.qty
                  /\ ui.last.calls = ui.last.qty
                  /\ ui.last.full
            /\ ui.state = NoState /\ ui.data = NoCatalogData
            /\ file.v["LAST_MENU_MESSAGE_ID"] = J_int(MenuMessageId))
    /\ [][OneCallAtATime /\ ReportClearsAndRefreshes]_vars

\* Three gifts were confirmed, two were bought and the third call failed
C20_Witness ==
    /\ Reported
    /\ ui.last.bought = 2 /\ ui.last.qty = 3 /\ ui.last.calls = 3
    /\ ~ui.last.full

\* ------------------------------------------------------------------------
\* Further properties of the worker and the handlers of the home menu
\* ------------------------------------------------------------------------
Counters == {"BOUGHT", "SPENT", "DONE"}

\* What a reset step writes and what it keeps
ResetFrame ==
    /\ file'.ACTIVE = FALSE
    /\ DOMAIN file' = DOMAIN file
    /\ \A key \in DOMAIN file \ {"ACTIVE", "PROFILES"} : file'[key] = file[key]
    /\ Len(file'.PROFILES) = Len(file.PROFILES)
    /\ \A k \in 1..Len(file.PROFILES) :
          /\ file'.PROFILES[k].BOUGHT = 0
          /\ file'.PROFILES[k].SPENT = 0
          /\ file'.PROFILES[k].DONE = FALSE
          /\ DOMAIN file'.PROFILES[k] = DOMAIN file.PROFILES[k]
          /\ \A key \in DOMAIN file.PROFILES[k] \ Counters :
                file'.PROFILES[k][key] = file.PROFILES[k][key]

\* C21: the reset sets BOUGHT = 0, SPENT = 0 and DONE = false on every
\* profile and ACTIVE = false, saves, and changes no other field of any
\* profile or of the configuration.
C21_ResetChangesOnlyCounters == [][reset_bought_callback => ResetFrame]_vars

\* The bot identity has paid for a gift, a handler has written, and every
\* counter is back at zero with the switch off: the reset has run after a
\* purchase
C21_Witness ==
    /\ wpc \in BetweenPasses
    /\ hist.writes
    /\ stars.bot < MaxStars
    /\ ~file.ACTIVE
    /\ \A k \in 1..Len(file.PROFILES) :
          /\ file.PROFILES[k].BOUGHT = 0
          /\ file.PROFILES[k].SPENT = 0
          /\ ~file.PROFILES[k].DONE
    /\ \E k \in 1..Len(file.PROFILES) : file.PROFILES[k].SENDER = "bot"

\* ------------------------------------------------------------------------
\* The top-up dialogues of the owner and of a guest
\* (handlers_wizard.py:1706-1809, 1867-1914), with the owner's permission toggle
\* ------------------------------------------------------------------------

\* main.py:336: presses of the guest top-up button per sender in one window
guest_deposit_limit == 10

\* The amounts a sender may type, around both ends of the accepted range
DepositAmounts == {0, 1, 50000, 50001}

\* What a message at an amount step may be: no text, "/cancel", a text that
\* is not a number, a number
DepositTexts == {"none", "/cancel", "bad", "number"}

\* handlers_wizard.py:1793-1794, 1896-1897: int(message.text) within range
AmountAccepted(text, amount) ==
    text = "number" /\ amount >= 1 /\ amount <= 50000

\* config.py:501-515: the flag as stored, read without validation
get_deposit_enabled(f) ==
    IF f = NoFile \/ f.t # "dict" THEN FALSE
    ELSE IF "DEPOSIT_ENBALE" \in DOMAIN f.v
    THEN Truthy(f.v["DEPOSIT_ENBALE"]) /\ f.v["DEPOSIT_ENBALE"] # J_bool(FALSE)
    ELSE FALSE

\* One event of the top-up dialogues as it is remembered
Event(user, handler, out) == [user |-> user, handler |-> handler, out |-> out]

InitDeposit ==
    /\ file = DEFAULT_CONFIG(USER_ID)
    /\ ui = [pc |-> "deposit",
             state |-> [user \in FromUsers |-> NoState],
             buttons |-> {},
             entries |-> 0,
             last |-> Event(USER_ID, "update_menu", "menu")]
    /\ co = NoCalls
    /\ Elsewhere

DepositOnly == UNCHANGED <<stars, wvars, hist, rf, co>>

\* handlers_wizard.py:1706-1729
deposit_menu ==
    LET read == Read(file)
        button == IF get_deposit_enabled(read.config)
                  THEN "deposit_disable" ELSE "deposit_enable"
    IN
    /\ ui.pc = "deposit"
    /\ file' = read.file
    /\ ui' = [ui EXCEPT !.state[USER_ID] = "deposit_amount",
                        !.buttons = @ \cup {button},
                        !.last = Event(USER_ID, "deposit_menu", "prompt")]
    /\ DepositOnly

\* handlers_wizard.py:1731-1752
deposit_enable_handler ==
    /\ ui.pc = "deposit"
    /\ "deposit_enable" \in ui.buttons
    /\ file' = WithKey(Read(file).config, "DEPOSIT_ENBALE", J_bool(TRUE))
    /\ ui' = [ui EXCEPT !.buttons = (@ \ {"deposit_enable"}) \cup {"deposit_disable"},
                        !.last = Event(USER_ID, "deposit_enable", "saved")]
    /\ DepositOnly

\* handlers_wizard.py:1754-1775
deposit_disable_handler ==
    /\ ui.pc = "deposit"
    /\ "deposit_disable" \in ui.buttons
    /\ file' = WithKey(Read(file).config, "DEPOSIT_ENBALE", J_bool(FALSE))
    /\ ui' = [ui EXCEPT !.buttons = (@ \ {"deposit_disable"}) \cup {"deposit_enable"},
                        !.last = Event(USER_ID, "deposit_disable", "saved")]
    /\ DepositOnly

\* handlers_wizard.py:1778-1809
deposit_amount_input ==
    /\ ui.pc = "deposit"
    /\ ui.state[USER_ID] = "deposit_amount"
    /\ \E text \in DepositTexts, amount \in DepositAmounts :
          IF text = "/cancel"
          THEN /\ file' = update_menu(file)
               /\ ui' = [ui EXCEPT !.state[USER_ID] = NoState,
                                   !.last = Event(USER_ID, "deposit_amount_input",
                                                  "cancelled")]
          ELSE IF text = "none"
          THEN /\ file' = file
               /\ ui' = [ui EXCEPT !.last = Event(USER_ID, "deposit_amount_input",
                                                  "text only")]
          ELSE IF AmountAccepted(text, amount)
          THEN /\ file' = file
               /\ ui' = [ui EXCEPT !.state[USER_ID] = NoState,
                                   !.last = Event(USER_ID, "deposit_amount_input",
                                                  "invoice")]
          ELSE /\ file' = file
               /\ ui' = [ui EXCEPT !.last = Event(USER_ID, "deposit_amount_input",
                                                  "prompt again")]
    /\ DepositOnly

\* main.py:335-340 and handlers_wizard.py:1867-1880: the button of the guest
\* menu; a press over the limit of the window is not served
guest_deposit_menu ==
    /\ ui.pc = "deposit"
    /\ IF ui.entries >= guest_deposit_limit
       THEN ui' = [ui EXCEPT !.last = Event(GUEST_ID, "guest_deposit_menu", "dropped")]
       ELSE IF ~get_deposit_enabled(file)
       THEN ui' = [ui EXCEPT !.entries = @ + 1,
                             !.last = Event(GUEST_ID, "guest_deposit_menu", "refused")]
       ELSE ui' = [ui EXCEPT !.entries = @ + 1,
                             !.state[GUEST_ID] = "guest_deposit_amount",
                             !.last = Event(GUEST_ID, "guest_deposit_menu", "prompt")]
    /\ UNCHANGED file
    /\ DepositOnly

\* handlers_wizard.py:1883-1914
guest_deposit_amount_input ==
    /\ ui.pc = "deposit"
    /\ ui.state[GUEST_ID] = "guest_deposit_amount"
    /\ \E text \in DepositTexts, amount \in DepositAmounts :
          IF text = "none"
          THEN ui' = [ui EXCEPT !.last = Event(GUEST_ID, "guest_deposit_amount_input",
                                               "text only")]
          ELSE IF AmountAccepted(text, amount)
          THEN ui' = [ui EXCEPT !.state[GUEST_ID] = NoState,
                                !.last = Event(GUEST_ID, "guest_deposit_amount_input",
                                               "invoice")]
          ELSE ui' = [ui EXCEPT !.state[GUEST_ID] = NoState,
                                !.last = Event(GUEST_ID, "guest_deposit_amount_input",
                                               "guest menu")]
    /\ UNCHANGED file
    /\ DepositOnly

\* The window of the rate limiter has passed for the guest top-up button
deposit_window_passed ==
    /\ ui.pc = "deposit"
    /\ ui.entries > 0
    /\ ui' = [ui EXCEPT !.entries = 0]
    /\ UNCHANGED file
    /\ DepositOnly

NextDeposit ==
    \/ deposit_menu
    \/ deposit_enable_handler
    \/ deposit_disable_handler
    \/ deposit_amount_input
    \/ guest_deposit_menu
    \/ guest_deposit_amount_input
    \/ deposit_window_passed

SpecDeposit == InitDeposit /\ [][NextDeposit]_vars

InDeposit == "entries" \in DOMAIN ui

\* C22: no payment invoice is sent to a guest at a moment when the stored
\* DEPOSIT_ENBALE flag is false, whatever the order of the owner's toggle
\* and the guest's steps.
C22_NoGuestInvoiceWhileDisabled ==
    InDeposit =>
        ~(/\ ui.last = Event(GUEST_ID, "guest_deposit_amount_input", "invoice")
          /\ ~get_deposit_enabled(file))

\* ------------------------------------------------------------------------
\* A failed purchase attempt within a pass
\* ------------------------------------------------------------------------

\* An executor call that was answered false
FailedCall == ExecutorCalled /\ wpass'.oks = wpass.oks

\* An attempt made for the profile in this pass has failed
FailedFor(k) == k \in DOMAIN wpass.calls /\ wpass.calls[k] > wpass.oks[k]

\* The worker is at the purchases of one profile
AtPurchases == {"gift", "record", "save"}

\* C23 as stated: once an attempt for a profile has failed in a pass, no
\* further attempt is made for that profile in that pass, for any gift.
C23_NoAttemptAfterFailure == [][ExecutorCalled => ~FailedFor(wi)]_vars

\* C23, amended: a failed attempt flags the pass, ends the attempts for that
\* gift (the worker goes to the next matching gift of the same profile, or
\* leaves the gifts when the profile has reached COUNT or LIMIT), the gift
\* index of a profile never goes back, and the flag stays for the pass.
C23_FailureEndsTheGift ==
    /\ [][FailedCall =>
            /\ ~wflags'.any_success
            /\ wi' = wi
            /\ IF Reached(CurProfile)
               THEN wpc' = "after"
               ELSE wpc' = "gift" /\ wg' = wg + 1]_vars
    /\ [][(wpc \in AtPurchases /\ wpc' \in AtPurchases) =>
            wi' = wi /\ wg' >= wg]_vars
    /\ []((wpc \in InTry /\ \E k \in DOMAIN wpass.calls : FailedFor(k))
            => ~wflags.any_success)

\* The only attempt for the profile has failed and the worker stands at the
\* next matching gift, which the profile can still afford
C23_Witness ==
    /\ wpc = "gift"
    /\ wg = 2
    /\ wg <= Len(filtered_gifts)
    /\ wpass.calls[wi] = 1
    /\ wpass.oks[wi] = 0
    /\ ~wflags.any_success
    /\ MayBuy(CurProfile, filtered_gifts[wg].price)

\* ------------------------------------------------------------------------
\* Handlers that write the configuration while the worker is inside the
\* purchase loop of a pass (main.py:129-181): every await of the worker lets
\* a handler run
\* ------------------------------------------------------------------------
MaxRaceWrites == 2

NoWrite == [handler |-> "none", k |-> 0, value |-> "none", at |-> "none",
            stars |-> [bot |-> 0, userbot |-> 0]]

\* Profiles of the bot identity only, the switch on
InitRace ==
    /\ \E n \in 1..1 :
          file = Config([k \in 1..n |-> Profile(MaxCount, MaxLimit, "bot")],
                        [ENABLED |-> FALSE, PHONE |-> None, BALANCE |-> 0], TRUE)
    /\ stars = [bot |-> MaxStars, userbot |-> 0]
    /\ wpc = "start"
    /\ wcfg = NoConfig
    /\ wlist = <<>>
    /\ wi = 1
    /\ wg = 1
    /\ wgifts = <<>>
    /\ wrebound = FALSE
    /\ wflags = NoFlags
    /\ wpass = NewPass(0)
    /\ hist = [writes |-> FALSE]
    /\ rf = NoRefund
    /\ co = NoCalls
    /\ ui = [pc |-> "race", writes |-> 0, last |-> NoWrite]

\* A handler has loaded, changed and saved the file between two steps of
\* the worker
WrittenInPass(handler, k, value) ==
    /\ ui.pc = "race"
    /\ wpc \in AtPurchases
    /\ ui.writes < MaxRaceWrites
    /\ ui' = [ui EXCEPT !.writes = @ + 1,
                        !.last = [handler |-> handler, k |-> k, value |-> value,
                                  at |-> wpc, stars |-> stars]]
    /\ hist' = [hist EXCEPT !.writes = TRUE]
    /\ UNCHANGED <<stars, wvars, rf, co>>

\* handlers_main.py:247-262 during a pass
toggle_active_in_pass ==
    /\ file' = [get_valid_config(file) EXCEPT !.ACTIVE = ~@]
    /\ WrittenInPass("toggle_active", 0, IF file'.ACTIVE THEN "on" ELSE "off")

\* handlers_wizard.py:758-800 during a pass: a new name for a profile
on_profile_name_entered_in_pass ==
    \E k \in 1..Len(file.PROFILES) :
        /\ file' = [get_valid_config(file) EXCEPT !.PROFILES[k].NAME = "renamed"]
        /\ WrittenInPass("on_profile_name_entered", k, "renamed")

\* handlers_wizard.py:1170-1206 during a pass: a new limit for a profile
step_edit_limit_in_pass ==
    \E k \in 1..Len(file.PROFILES), value \in 1..MaxLimit :
        /\ file' = [get_valid_config(file) EXCEPT !.PROFILES[k].LIMIT = value]
        /\ WrittenInPass("step_edit_limit", k, IF value = MaxLimit THEN "max" ELSE "less")

NextRace ==
    \/ Worker
    \/ toggle_active_in_pass
    \/ on_profile_name_entered_in_pass
    \/ step_edit_limit_in_pass

SpecRace == InitRace /\ [][NextRace]_vars

InRace == "writes" \in DOMAIN ui

\* What the handler wrote is in the file
Present(write, f) ==
    CASE write.handler = "toggle_active" -> f.ACTIVE = (write.value = "on")
      [] write.handler = "on_profile_name_entered" -> f.PROFILES[write.k].NAME = "renamed"
      [] write.handler = "step_edit_limit" ->
            (f.PROFILES[write.k].LIMIT = MaxLimit) = (write.value = "max")
      [] OTHER -> TRUE

\* The step of main.py:168-172 and the step of main.py:173
Reloads == wpc = "record" /\ wpc' = "save"
Saves == wpc = "save" /\ wpc' \in {"gift", "after"}

\* The last handler write was saved after the purchase that is being counted
\* and before its re-load: no star has been spent since
WrittenBeforeReload == ui.last.at = "record" /\ ui.last.stars = stars

\* C24: after a successful purchase the worker counts on the re-loaded
\* record: a handler write saved before the re-load is in the file after the
\* worker's save, and BOUGHT and SPENT grow by exactly 1 and the gift's price
\* relative to the re-loaded values.
C24_CountsOnTheReloadedRecord ==
    /\ [][Reloads =>
            /\ wcfg'.PROFILES[wi].BOUGHT = file.PROFILES[wi].BOUGHT + 1
            /\ wcfg'.PROFILES[wi].SPENT
                  = file.PROFILES[wi].SPENT + filtered_gifts[wg].price
            /\ [wcfg' EXCEPT !.PROFILES[wi].BOUGHT = file.PROFILES[wi].BOUGHT,
                             !.PROFILES[wi].SPENT = file.PROFILES[wi].SPENT] = file]_vars
    /\ [][Saves => file' = wcfg]_vars
    /\ [][(wpc = "save" /\ wpc' = "save") => wcfg' = wcfg]_vars
    /\ [][(InRace /\ Saves /\ WrittenBeforeReload) => Present(ui.last, file')]_vars

\* The worker has just saved the count of a purchase made after a handler
\* wrote a new name during the pass, and the name is in the file
C24_Witness ==
    /\ InRace
    /\ wpc \in {"gift", "after"}
    /\ wrebound
    /\ file = wcfg
    /\ ui.last.handler = "on_profile_name_entered"
    /\ WrittenBeforeReload
    /\ file.PROFILES[ui.last.k].NAME = "renamed"
    /\ file.PROFILES[wi].BOUGHT > 0

\* ------------------------------------------------------------------------
\* The suggestion of the next deposit (balance.py:206-249)
\* ------------------------------------------------------------------------

\* The candidates that were not selected
Unselected ==
    SelectSeq(rf.cands, LAMBDA t : \A k \in 1..Len(rf.best_combo) : rf.best_combo[k] # t)

\* The amounts of unselected candidates above what is left
AboveLeft ==
    {Unselected[k].amount : k \in 1..Len(Unselected)} \cap
        {a \in Amounts : a > rf.result.left}

\* The suggestion is the smallest unselected deposit above what is left, or
\* none when there is no such deposit
SuggestionIsSmallestAbove ==
    IF AboveLeft = {}
    THEN rf.result.next_deposit = NoDeposit
    ELSE /\ \A a \in AboveLeft : rf.result.next_deposit.amount <= a
         /\ \E k \in 1..Len(Unselected) :
               /\ Unselected[k].id = rf.result.next_deposit.id
               /\ Unselected[k].amount = rf.result.next_deposit.amount
               /\ Unselected[k].amount > rf.result.left

\* C25: whenever left = balance - sum(selected) is above 0 and a candidate
\* is unselected, also when nothing could be selected, the result carries as
\* suggestion the smallest unselected deposit above left, or none if there
\* is no such deposit.
C25_SuggestsSmallestAboveLeft ==
    (rf.pc = "done" /\ "cands" \in DOMAIN rf) =>
        ((rf.result.left > 0 /\ Unselected # <<>>) => SuggestionIsSmallestAbove)

\* ------------------------------------------------------------------------
\* Further properties of the sign-in wizard and of the text steps
\* ------------------------------------------------------------------------
\* The owner has sent /cancel at a step of the sign-in wizard
CancelSent ==
    \/ ui.last.out = "cancelled"
    \/ ui.last = Did("unhandled", "/cancel")

\* C26: at every step of the sign-in wizard (api id, api hash, phone, code
\* keypad, password) the text /cancel clears the wizard state, is
\* acknowledged, and the home menu is sent again.
C26_CancelClearsEveryStep ==
    InSignin /\ CancelSent =>
        /\ ui.state = NoState
        /\ ui.data = NoSigninData
        /\ ui.last.out = "cancelled"
        /\ file.v["LAST_MENU_MESSAGE_ID"] = J_int(MenuMessageId)

\* An input of a catalog text step was refused
RefusedCatalogInput ==
    /\ ui'.last.handler \in {"on_quantity_entered", "on_recipient_entered"}
    /\ ui'.last.out \in {"invalid", "raised"}

\* C27: an input that fails the validation of a text step leaves the FSM
\* state, the data collected so far and the stored configuration as they
\* were, and the step is prompted again (stated for the two text steps of
\* the catalog purchase).
C27_InvalidInputReprompts ==
    [][InCatalog /\ RefusedCatalogInput =>
          /\ ui'.state = ui.state
          /\ ui'.data = ui.data
          /\ file' = file
          /\ ui'.last.out = "invalid"]_vars

\* The stored credentials are absent and the session is switched off
CredentialsAbsent(f) ==
    LET userbot == f.v["USERBOT"].v
    IN /\ \A k \in {"API_ID", "API_HASH", "PHONE", "USER_ID", "USERNAME"} :
             userbot[k] = J_null
       /\ userbot["ENABLED"] = J_bool(FALSE)

\* A code or a password is awaited from the owner
Pending == ui.state \in {"userbot_code", "userbot_password"}

\* C28: is_userbot_active is false while a code or a password is pending; it
\* becomes true only when a code or a password is accepted, and stays true
\* until the session is removed or a new code is requested; after
\* delete_userbot_session it is false, no handle is registered and the
\* stored API_ID, API_HASH, PHONE, USER_ID and USERNAME are null with
\* ENABLED = false.
C28_ActiveOnlyWhenAuthenticated ==
    /\ [](InSignin =>
            /\ Pending => ~is_userbot_active(ui.clients)
            /\ ui.last.handler = "userbot_delete_handler" =>
                  /\ ~is_userbot_active(ui.clients)
                  /\ ui.clients = "none"
                  /\ CredentialsAbsent(file))
    /\ [][InSignin =>
            /\ ~is_userbot_active(ui.clients) /\ is_userbot_active(ui'.clients) =>
                  ui'.last.out = "signed_in" /\ Persisted(file')
            /\ is_userbot_active(ui.clients) /\ ~is_userbot_active(ui'.clients) =>
                  ui'.last \in {Did("userbot_delete_handler", "stopped"),
                                Did("get_phone", "code")}]_vars

\* A session that was signed in with a password has been removed
C28_Witness ==
    /\ InSignin
    /\ ui.last = Did("userbot_delete_handler", "stopped")
    /\ ui.ret = <<TRUE, TRUE, FALSE>>
    /\ CredentialsAbsent(file)

\* C29: start_userbot answers every failure, a failed connect of the new
\* client included, with False; no exception reaches the handler of the
\* phone step.
C29_StartSignInNeverRaises ==
    InSignin => ui.last # Did("get_phone", "raised")

\* C30: continue_userbot_signin returns three values on every path:
\* (true, false, false) for a sign-in, (true, true, false) when the password
\* is needed, (false, false, true) for an invalid code below the cap and
\* (false, false, false) for every other outcome, which the code step
\* unpacks and handles.
C30_AlwaysATriple ==
    InSignin /\ ui.last.handler = "on_code_enter" /\ ui.last.out # "alert" =>
        /\ Len(ui.ret) = 3
        /\ ui.ret = CASE ui.last.out = "signed_in" -> <<TRUE, FALSE, FALSE>>
                      [] ui.last.out = "password" -> <<TRUE, TRUE, FALSE>>
                      [] ui.last.out = "retry" -> <<FALSE, FALSE, TRUE>>
                      [] OTHER -> <<FALSE, FALSE, FALSE>>

\* ------------------------------------------------------------------------
\* services/menu.py:75-127: the home menu as a message of the chat.  Every
\* message of the chat takes the next id; a menu is live until it is deleted
\* ------------------------------------------------------------------------
\* Messages sent in the chat
MaxMessageId == 9

InitMenu ==
    /\ file = DEFAULT_CONFIG(USER_ID)
    /\ ui = [pc |-> "menu", menus |-> {}, next |-> 1,
             last |-> Did("main", "started")]
    /\ co = NoCalls
    /\ Elsewhere

MenuOnly == UNCHANGED <<stars, wvars, hist, rf, co>>

\* services/menu.py:36-42 after get_valid_config
get_last_menu_message_id(f) == Read(f).file.v["LAST_MENU_MESSAGE_ID"]

\* services/menu.py:88-109: the recorded menu is deleted if there is one and
\* it is not the current message; "message to delete not found" is passed
delete_menu(menus, last, current) ==
    IF Truthy(last) /\ last.v # current THEN menus \ {last.v} ELSE menus

\* services/menu.py:75-85 and 112-127: the menus of the chat, the file and
\* the next free id after update_menu(message_id = current)
update_menu_in_chat(u, f, current, id) ==
    [menus |-> delete_menu(u.menus, get_last_menu_message_id(f), current)
                  \cup {id},
     file |-> WithKey(Read(f).file, "LAST_MENU_MESSAGE_ID", J_int(id)),
     next |-> id + 1]

\* handlers_main.py:46-60: /start is a message of its own, the menu follows
start_in_chat ==
    /\ ui.pc = "menu" /\ ui.next + 1 <= MaxMessageId
    /\ LET done == update_menu_in_chat(ui, refresh_balance_json(file),
                                       ui.next, ui.next + 1)
       IN /\ ui' = [ui EXCEPT !.menus = done.menus, !.next = done.next,
                              !.last = Did("command_status_handler", "menu")]
          /\ file' = done.file
    /\ MenuOnly

\* handlers_main.py:264-285: the button is on the home menu, so call.message
\* is a menu of the chat; the log is answered first
send_logs_callback ==
    /\ ui.pc = "menu" /\ ui.next + 1 <= MaxMessageId
    /\ \E m \in ui.menus, cached \in BOOLEAN :
          IF ~cached
          THEN /\ ui' = [ui EXCEPT !.next = @ + 1,
                                   !.last = Did("send_logs_callback", "empty")]
               /\ file' = file
          ELSE LET done == update_menu_in_chat(ui, file, m, ui.next + 1)
               IN /\ ui' = [ui EXCEPT !.menus = done.menus, !.next = done.next,
                                      !.last = Did("send_logs_callback", "menu")]
                  /\ file' = done.file
    /\ MenuOnly

\* main.py:260-263, 272-275, 281-284: the worker sends its report and
\* calls update_menu with the id of the report
worker_report_in_chat ==
    /\ ui.pc = "menu" /\ ui.next + 1 <= MaxMessageId
    /\ LET done == update_menu_in_chat(ui, file, ui.next, ui.next + 1)
       IN /\ ui' = [ui EXCEPT !.menus = done.menus, !.next = done.next,
                              !.last = Did("gift_purchase_worker", "menu")]
          /\ file' = done.file
    /\ MenuOnly

\* The owner removes a menu from the chat by hand
owner_deletes_menu ==
    /\ ui.pc = "menu"
    /\ \E m \in ui.menus :
          ui' = [ui EXCEPT !.menus = @ \ {m},
                           !.last = Did("owner", "deleted")]
    /\ UNCHANGED file
    /\ MenuOnly

NextMenu ==
    \/ start_in_chat
    \/ send_logs_callback
    \/ worker_report_in_chat
    \/ owner_deletes_menu

SpecMenu == InitMenu /\ [][NextMenu]_vars

InMenu == "menus" \in DOMAIN ui

\* C31: after every completed update_menu the chat holds at most one live
\* home menu, and the id of the menu just sent is the stored
\* LAST_MENU_MESSAGE_ID, also when update_menu was called from a button of
\* the home menu itself.
C31_AtMostOneLiveMenu ==
    InMenu /\ ui.last.out = "menu" =>
        /\ Cardinality(ui.menus) <= 1
        /\ file.v["LAST_MENU_MESSAGE_ID"] = J_int(ui.next - 1)
        /\ ui.next - 1 \in ui.menus

\* ------------------------------------------------------------------------
\* services/gifts_bot.py and services/gifts_redis.py: the two sources of
\* the gift list.  DEV_MODE is False (services/config.py:34) and
\* add_test_gifts keeps its default, so no test gifts are added
\* ------------------------------------------------------------------------
\* Gifts the marketplace lists at a time
MaxMarket == 3

\* A gift as the platform lists it: total_count (supply in the Redis
\* document) is null for a gift without a supply
Listed(id, price, supply) ==
    [id |-> id, price |-> price, supply |-> supply, left |-> J_int(0)]

Market ==
    {Listed("g1", 3, J_int(5)), Listed("g2", 2, J_null),
     Listed("g3", 1, J_int(50)), Listed("g4", 2, J_int(5)),
     Listed("g5", 4, J_int(0))}

\* The listings: up to MaxMarket different gifts in any order
Listings ==
    UNION {{l \in [1..n -> Market] : \A i, j \in 1..n : i # j => l[i] # l[j]} :
           n \in 0..MaxMarket}

PriceBands == {[min |-> 1, max |-> 3], [min |-> 2, max |-> 2]}
SupplyBands == {[min |-> 1, max |-> 10], [min |-> 0, max |-> 10]}

\* `x or 0`
or_0(x) == IF Truthy(x) THEN x.v ELSE 0

\* A supply test that lets a gift without supply through
supply_ok_absent_passes(gift, min_supply, max_supply, unlimited) ==
    \/ unlimited
    \/ gift.supply = J_null
    \/ min_supply <= or_0(gift.supply) /\ or_0(gift.supply) <= max_supply

\* gifts_bot.py:78-82, gifts_redis.py:127-131
supply_ok(gift, min_supply, max_supply, unlimited) ==
    \/ unlimited
    \/ min_supply <= or_0(gift.supply) /\ or_0(gift.supply) <= max_supply

\* gifts_bot.py:76, gifts_redis.py:125
price_ok(gift, min_price, max_price) ==
    min_price <= gift.price /\ gift.price <= max_price

\* gifts_bot.py:26-40: total_count and remaining_count `or 0`
normalize_gift_bot(gift) ==
    [id |-> gift.id, price |-> gift.price,
     supply |-> J_int(or_0(gift.supply)), left |-> J_int(or_0(gift.left)),
     sticker_file_id |-> J_null, emoji |-> J_null]

\* gifts_redis.py:76-90: gift.get("supply", 0) keeps a stored null
normalize_gift_redis(gift) ==
    [id |-> gift.id, price |-> gift.price,
     supply |-> gift.supply, left |-> gift.left,
     sticker_file_id |-> J_null, emoji |-> J_null]

\* list.sort(key=price, reverse=True): stable, descending
RECURSIVE SortByPriceDesc(_)
SortByPriceDesc(gifts) ==
    IF gifts = <<>> THEN <<>>
    ELSE LET rest == SortByPriceDesc(Tail(gifts))
             x == Head(gifts)
             pos == Cardinality({k \in 1..Len(rest) : rest[k].price > x.price})
         IN SubSeq(rest, 1, pos) \o <<x>> \o SubSeq(rest, pos + 1, Len(rest))

\* gifts_bot.py:74-85 and 98-100, gifts_redis.py:123-135 and 148-150
filtered(gifts, price, supply, unlimited) ==
    SelectSeq(gifts, LAMBDA g : /\ price_ok(g, price.min, price.max)
                                /\ supply_ok(g, supply.min, supply.max, unlimited))

get_bot_filtered_gifts(gifts, price, supply, unlimited) ==
    LET kept == filtered(gifts, price, supply, unlimited)
    IN SortByPriceDesc([i \in 1..Len(kept) |-> normalize_gift_bot(kept[i])])

get_redis_filtered_gifts(gifts, price, supply, unlimited) ==
    LET kept == filtered(gifts, price, supply, unlimited)
    IN SortByPriceDesc([i \in 1..Len(kept) |-> normalize_gift_redis(kept[i])])

NoAnswer == [source |-> "none", gifts |-> <<>>, answered |-> FALSE]

InitGifts ==
    /\ file = DEFAULT_CONFIG(USER_ID)
    /\ \E listing \in Listings, price \in PriceBands, supply \in SupplyBands,
          unlimited \in BOOLEAN :
          ui = [pc |-> "gifts", listing |-> listing, price |-> price,
                supply |-> supply, unlimited |-> unlimited, answer |-> NoAnswer]
    /\ co = NoCalls
    /\ Elsewhere

GiftsOnly == UNCHANGED <<file, stars, wvars, hist, rf, co>>

\* gifts_bot.py:43-100; bot.get_available_gifts may raise (66-72)
bot_source ==
    /\ ui.pc = "gifts"
    /\ \E answered \in BOOLEAN :
          ui' = [ui EXCEPT !.answer =
                    [source |-> "bot", answered |-> answered,
                     gifts |-> IF answered
                               THEN get_bot_filtered_gifts(ui.listing, ui.price,
                                                           ui.supply, ui.unlimited)
                               ELSE <<>>]]
    /\ GiftsOnly

\* gifts_redis.py:92-154; no data or an exception gives ([], False)
redis_source ==
    /\ ui.pc = "gifts"
    /\ \E answered \in BOOLEAN :
          ui' = [ui EXCEPT !.answer =
                    [source |-> "redis", answered |-> answered,
                     gifts |-> IF answered
                               THEN get_redis_filtered_gifts(ui.listing, ui.price,
                                                             ui.supply, ui.unlimited)
                               ELSE <<>>]]
    /\ GiftsOnly

NextGifts ==
    \/ bot_source
    \/ redis_source

SpecGifts == InitGifts /\ [][NextGifts]_vars

InGifts == "listing" \in DOMAIN ui

\* The supply of a listed gift, an absent one counted as 0
SupplyOf(g) == IF g.supply = J_null THEN 0 ELSE g.supply.v

\* What the claim asks of a listed gift
InBands(g) ==
    /\ ui.price.min <= g.price /\ g.price <= ui.price.max
    /\ \/ ui.unlimited
       \/ ui.supply.min <= SupplyOf(g) /\ SupplyOf(g) <= ui.supply.max

\* The gifts of a list, by id
IdsOf(gifts) == {gifts[i].id : i \in 1..Len(gifts)}

OwnerToggles ==
    /\ ui'.writes = ui.writes + 1
    /\ ui'.last.handler = "toggle_active"

\* C33: the stored ACTIVE changes from false to true only through the
\* owner's toggle; after the owner has switched it off during a pass the
\* worker does not write ACTIVE = true.
C33_OnlyTheOwnerSwitchesOn ==
    [][InRace /\ ~file.ACTIVE /\ file'.ACTIVE => OwnerToggles]_vars

\* ------------------------------------------------------------------------
\* The list of profiles changed by the owner during a pass
\* ------------------------------------------------------------------------
\* Two profiles of the bot identity that differ in their names
InitShift ==
    /\ file = Config(<<[Profile(MaxCount, MaxLimit, "bot") EXCEPT !.NAME = "first"],
                       [Profile(MaxCount, MaxLimit, "bot") EXCEPT !.NAME = "second"]>>,
                     [ENABLED |-> FALSE, PHONE |-> None, BALANCE |-> 0], TRUE)
    /\ stars = [bot |-> MaxStars, userbot |-> 0]
    /\ wpc = "start"
    /\ wcfg = NoConfig
    /\ wlist = <<>>
    /\ wi = 1
    /\ wg = 1
    /\ wgifts = <<>>
    /\ wrebound = FALSE
    /\ wflags = NoFlags
    /\ wpass = NewPass(0)
    /\ hist = [writes |-> FALSE]
    /\ rf = NoRefund
    /\ co = NoCalls
    /\ ui = [pc |-> "race", writes |-> 0, last |-> NoWrite]

\* handlers_wizard.py:1486-1501 with remove_profile (config.py:481-498)
\* during a pass, while another profile remains
on_profile_delete_final_in_pass ==
    /\ ui.writes = 0
    /\ \E idx \in 0..(Len(file.PROFILES) - 1) :
          /\ Len(get_valid_config(file).PROFILES) > 1
          /\ file' = [get_valid_config(file) EXCEPT !.PROFILES = Pop(@, idx)]
          /\ WrittenInPass("on_profile_delete_final", idx + 1, "deleted")

\* handlers_wizard.py:1319-1352 with add_profile (config.py:450-461) during
\* a pass: the new profile goes to the end of the list
save_sender_and_finish_in_pass ==
    /\ ui.writes = 0
    /\ Len(get_valid_config(file).PROFILES) < MAX_PROFILES
    /\ file' = [get_valid_config(file) EXCEPT
                   !.PROFILES = Append(@, [Profile(MaxCount, MaxLimit, "bot")
                                              EXCEPT !.NAME = "added"])]
    /\ WrittenInPass("save_sender_and_finish", Len(file'.PROFILES), "added")

NextShift ==
    \/ Worker
    \/ on_profile_delete_final_in_pass
    \/ save_sender_and_finish_in_pass

SpecShift == InitShift /\ [][NextShift]_vars

\* C34: a successful purchase is counted on the profile it was bought for:
\* the profile the worker increments after the re-load is the one whose
\* bands, recipient and sender it used, also when the owner has deleted or
\* added a profile during the purchase.
C34_CountedOnTheProfileBoughtFor ==
    [][InRace /\ Reloads => wcfg'.PROFILES[wi].NAME = wlist[wi].NAME]_vars

\* ------------------------------------------------------------------------
\* A sender edit while the worker counts purchases
\* (handlers_wizard.py:936-970, 1305-1352; main.py:168-173)
\* ------------------------------------------------------------------------
\* The purchases the worker counts while a dialogue is open, and the
\* highest price of a counted gift
MaxCounted == 2

\* main.py:168-173: the worker, between two awaits of a handler, re-loads
\* the config, counts one purchase on a profile and saves
worker_counts_purchase ==
    LET read == Read(file)
    IN
    /\ ui.pc = "idle" /\ Truthy(read.config.v["ACTIVE"])
    /\ \E profile_index \in 0..(MAX_PROFILES - 1), gift_price \in 1..MaxCounted :
          /\ profile_index < Len(ProfilesOf(read.config))
          /\ LET profile == ProfilesOf(read.config)[profile_index + 1]
                 counted == WithKey(WithKey(profile,
                                "BOUGHT", J_int(profile.v["BOUGHT"].v + 1)),
                                "SPENT", J_int(profile.v["SPENT"].v + gift_price))
             IN /\ profile.v["BOUGHT"].v < MaxCounted
                /\ file' = WithProfiles(read.config,
                              [ProfilesOf(read.config) EXCEPT ![profile_index + 1] = counted])
    /\ UNCHANGED ui
    /\ DialogueOnly

NextSender ==
    \/ on_profiles_menu
    \/ on_profile_edit
    \/ edit_profile_sender
    \/ save_sender_and_finish
    \/ worker_counts_purchase

\* The owner has switched the worker on: one or two profiles, ACTIVE true
InitSender ==
    /\ \E n \in {1, 2} :
          /\ file = WithKey(WithProfiles(DEFAULT_CONFIG(USER_ID), DefaultProfiles(n)),
                            "ACTIVE", J_bool(TRUE))
          /\ ui = [pc |-> "idle", state |-> NoState, data |-> NoData,
                   chat |-> {profiles_menu(file)}, pressed |-> Menu(0),
                   started |-> 0, numbers |-> FewNumbers, sessions |-> MaxPresses,
                   last |-> Did("on_profiles_menu", "menu")]
    /\ co = NoCalls
    /\ Elsewhere

SpecSender == InitSender /\ [][NextSender]_vars

\* The save of a sender edit of an existing profile
SenderSaved ==
    /\ "chat" \in DOMAIN ui
    /\ ui'.started = ui.started + 1
    /\ ui'.last = Did("save_sender_and_finish", "updated")

\* C35: a sender edit of an existing profile changes only its SENDER: every
\* other field of that profile, and every other profile, has after the save
\* the value it had in the config immediately before the save.
C35_SenderEditChangesOnlySender ==
    [][SenderSaved =>
        LET before == ProfilesOf(Read(file).config)
            after == ProfilesOf(file')
            idx == ui.data.v["profile_index"].v
        IN /\ Len(after) = Len(before)
           /\ \A k \in 1..Len(before) :
                \A key \in DOMAIN before[k].v :
                    (k = idx + 1 /\ key = "SENDER") \/ after[k].v[key] = before[k].v[key]]_vars

\* ------------------------------------------------------------------------
\* The balance refreshed during a pass and the save at the end of the pass
\* (main.py:188-219, 265-275; balance.py:74-107)
\* ------------------------------------------------------------------------
\* handlers_main.py:297-316: a guest's payment has reached the bot while the
\* worker is inside a pass: the platform balance grows, the handler writes
\* nothing to the configuration
guest_payment_in_pass ==
    /\ ui.pc = "race"
    /\ wpc \in AtPurchases \cup {"after", "dsave", "refresh"}
    /\ ui.writes < MaxRaceWrites
    /\ stars' = [stars EXCEPT !.bot = @ + 1]
    /\ ui' = [ui EXCEPT !.writes = @ + 1,
                        !.last = [handler |-> "process_successful_payment", k |-> 0,
                                  value |-> "paid", at |-> wpc, stars |-> stars]]
    /\ UNCHANGED <<file, wvars, hist, rf, co>>

NextStale == Worker \/ guest_payment_in_pass

SpecStale == InitRace /\ [][NextStale]_vars

\* The save of main.py:267-268
ReportSaves == wpc = "endB" /\ wpc' = "endC" /\ wflags.progress_made

\* C36: the save at the end of a pass with progress changes only ACTIVE:
\* BALANCE and USERBOT.BALANCE, like every other field, keep the values
\* that the refresh of the pass has stored.
C36_EndOfPassWritesOnlyActive ==
    [][InRace /\ ReportSaves => file' = [file EXCEPT !.ACTIVE = file'.ACTIVE]]_vars

\* ------------------------------------------------------------------------
\* The worker left alone: a matching gift in every list, every purchase
\* call succeeds, no handler runs and nothing raises (main.py:85-289)
\* ------------------------------------------------------------------------
\* The lists of get_best_gift_list that hold a gift inside the bands of
\* every profile
MatchingLists ==
    {gl \in GiftLists :
        \E i \in 1..Len(gl) : GiftMatches(gl[i], Profile(MaxCount, MaxLimit, "bot"))}

\* A profile completed in an earlier pass with gifts of price 1
Completed(profile) ==
    [profile EXCEPT !.BOUGHT = profile.COUNT, !.SPENT = profile.COUNT, !.DONE = TRUE]

\* One or two profiles of the bot identity, fresh or completed earlier, the
\* switch on, and stars enough to pay for every purchase the limits allow
InitLive ==
    /\ \E n \in 1..MaxProfilesInit :
         \E counts \in [1..n -> 1..MaxCount], done \in [1..n -> BOOLEAN] :
            file = Config([k \in 1..n |->
                             IF done[k]
                             THEN Completed(Profile(counts[k], MaxLimit, "bot"))
                             ELSE Profile(counts[k], MaxLimit, "bot")],
                          [ENABLED |-> FALSE, PHONE |-> None, BALANCE |-> 0], TRUE)
    /\ stars = [bot |-> MaxProfilesInit * MaxLimit, userbot |-> 0]
    /\ wpc = "start"
    /\ wcfg = NoConfig
    /\ wlist = <<>>
    /\ wi = 1
    /\ wg = 1
    /\ wgifts = <<>>
    /\ wrebound = FALSE
    /\ wflags = NoFlags
    /\ wpass = NewPass(0)
    /\ hist = [writes |-> FALSE]
    /\ rf = NoRefund
    /\ co = NoCalls
    /\ ui = [pc |-> "live"]

\* main.py:99 when the market holds a matching gift
WFetchMatching ==
    /\ wpc = "fetch"
    /\ \E gl \in MatchingLists : wgifts' = gl
    /\ wi' = 1
    /\ wpc' = "profile"
    /\ UNCHANGED <<file, stars, wcfg, wlist, wg, wrebound, wflags, wpass, hist, rf, co, ui>>

NextLive ==
    \/ WStart \/ WLoadInactive \/ WIdle \/ WLoadActive
    \/ WFetchMatching \/ WProfileSkip \/ WProfileEnter \/ WProfilesDone
    \/ WBuyOk \/ WNoBuy \/ WGiftsDone \/ WRecord \/ WSave
    \/ WAfterDone \/ WDoneSave \/ WAfterPartial \/ WAfterNone \/ WRefresh
    \/ WNoDiagnostic \/ WReport \/ WNoReport
    \/ WAllDone \/ WNotAllDone \/ WSleep

\* The event loop always runs the worker's next step
SpecLive == InitLive /\ [][NextLive]_vars /\ WF_vars(NextLive)

\* C37: left alone with a matching gift and successful purchases, the worker
\* eventually has every profile DONE and ACTIVE false in the file.
C37_EventuallyAllDoneAndInactive ==
    <>(ui.pc = "live" => AllDone(file) /\ ~file.ACTIVE)

\* ------------------------------------------------------------------------
\* Two confirmation messages and two runs of confirm_purchase at the same
\* time (handlers_catalog.py:162-268): every await of the purchase loop
\* lets another callback run
\* ------------------------------------------------------------------------
NoOrder == [selected_gift |-> 0, selected_qty |-> 0, order |-> 0]

\* The locals of the two possible runs of confirm_purchase, one for each
\* confirmation message
NoJobs == [m \in 1..MaxConfirms |-> NoJob]

InitDouble ==
    /\ file = DEFAULT_CONFIG(USER_ID)
    /\ stars = [bot |-> CatalogStars, userbot |-> 0]
    /\ ui = [pc |-> "double", data |-> NoOrder,
             msgs |-> [m \in 1..MaxConfirms |-> "none"],
             jobs |-> NoJobs,
             qty |-> [m \in 1..MaxConfirms |-> 0],
             succeeded |-> [m \in 1..MaxConfirms |-> 0],
             using |-> [m \in 1..MaxConfirms |-> 0],
             last |-> Did("update_menu", "menu")]
    /\ co = NoCalls
    /\ rf = NoRefund
    /\ wpc = "dead"
    /\ wcfg = NoConfig
    /\ wlist = <<>>
    /\ wi = 1
    /\ wg = 1
    /\ wgifts = <<>>
    /\ wrebound = FALSE
    /\ wflags = NoFlags
    /\ wpass = NewPass(0)
    /\ hist = [writes |-> FALSE]

\* handlers_catalog.py:107-214: the gift, the quantity and the recipient of
\* an order are entered; the order is in the FSM data and its confirmation
\* message is displayed with the two buttons
order_entered ==
    /\ ui.pc = "double"
    /\ \E m \in 1..MaxConfirms, price \in CatalogPrices, qty \in 1..MaxQty :
          /\ ui.msgs[m] = "none"
          /\ \A earlier \in 1..(m - 1) : ui.msgs[earlier] # "none"
          /\ ui' = [ui EXCEPT
                !.data = [selected_gift |-> price, selected_qty |-> qty, order |-> m],
                !.msgs[m] = "buttons",
                !.qty[m] = qty,
                !.last = Did("on_recipient_entered", "confirm")]
    /\ UNCHANGED <<file, stars>>
    /\ CatalogOnly

\* handlers_catalog.py:217-234: the confirm button of message m is pressed,
\* or its event arrives once more after the message was edited.  The edit
\* of a message that already shows the progress text is refused by the
\* platform and edit_text raises.
confirm_purchase_on_message ==
    /\ ui.pc = "double"
    /\ \E m \in 1..MaxConfirms :
          /\ ui.msgs[m] \in {"buttons", "progress"}
          /\ ui' = IF ui.data.selected_gift = 0 \/ ui.msgs[m] = "progress"
                   THEN [ui EXCEPT !.last = Did("confirm_purchase", "raised")]
                   ELSE [ui EXCEPT
                            !.msgs[m] = "progress",
                            !.jobs[m] = [pos |-> "loop",
                                         qty |-> ui.data.selected_qty,
                                         price |-> ui.data.selected_gift,
                                         bought |-> 0, calls |-> 0, failed |-> FALSE],
                            !.using[m] = ui.data.order,
                            !.last = Did("confirm_purchase", "buying")]
    /\ UNCHANGED <<file, stars>>
    /\ CatalogOnly

\* handlers_catalog.py:237-252: one turn of the loop of the run started from
\* message m
confirm_purchase_buy_on_message ==
    /\ ui.pc = "double"
    /\ \E m \in 1..MaxConfirms, accepted \in BOOLEAN :
          /\ ui.jobs[m].pos = "loop"
          /\ LoopGoesOn(ui.jobs[m])
          /\ IF accepted /\ CanPay("bot", ui.jobs[m].price)
             THEN /\ stars' = [stars EXCEPT !.bot = @ - ui.jobs[m].price]
                  /\ file' = change_balance_json(file, 0 - ui.jobs[m].price)
                  /\ ui' = [ui EXCEPT !.jobs[m].calls = @ + 1,
                                      !.jobs[m].bought = @ + 1,
                                      !.succeeded[ui.using[m]] = @ + 1,
                                      !.last = Did("confirm_purchase", "bought")]
             ELSE /\ UNCHANGED <<file, stars>>
                  /\ ui' = [ui EXCEPT !.jobs[m].calls = @ + 1,
                                      !.jobs[m].failed = TRUE,
                                      !.last = Did("confirm_purchase", "failed")]
    /\ CatalogOnly

\* handlers_catalog.py:254-268: the report of the run started from message
\* m, state.clear(), update_menu
confirm_purchase_report_on_message ==
    /\ ui.pc = "double"
    /\ \E m \in 1..MaxConfirms :
          /\ ui.jobs[m].pos = "loop"
          /\ ~LoopGoesOn(ui.jobs[m])
          /\ ui' = [ui EXCEPT !.data = NoOrder,
                              !.jobs[m].pos = "done",
                              !.last = Did("confirm_purchase", "report")]
    /\ file' = update_menu(file)
    /\ UNCHANGED stars
    /\ CatalogOnly

NextDouble ==
    \/ order_entered
    \/ confirm_purchase_on_message
    \/ confirm_purchase_buy_on_message
    \/ confirm_purchase_report_on_message

SpecDouble == InitDouble /\ [][NextDouble]_vars

InDouble == "jobs" \in DOMAIN ui

\* C38: an order of quantity q never gets more than q successful executor
\* calls, however often and whenever a confirm button is pressed.
C38_AtMostQtyPurchasesPerOrder ==
    InDouble => \A m \in 1..MaxConfirms : ui.succeeded[m] <= ui.qty[m]

\* A sign-in attempt has just ended without authentication after the login
\* code was requested: a final failure at the code or the password step, or
\* /cancel at the password step
EndedUnauthenticated ==
    \/ ui.last.handler = "on_code_enter" /\ ui.last.out \in {"final", "failed"}
    \/ ui.last.handler = "get_password" /\ ui.last.out \in {"failed", "cancelled"}

\* C39: when a sign-in attempt has ended without authentication no client
\* handle is registered for the owner.
C39_NoHandleAfterFailedSignin ==
    InSignin /\ EndedUnauthenticated => ui.clients = "none"

\* ------------------------------------------------------------------------
\* The test purchases of the help screen (handlers_main.py:151-219) next to
\* the owner's switch (handlers_main.py:247-262)
\* ------------------------------------------------------------------------
\* The price of the test gift, handlers_main.py:169 and 203
TestGiftPrice == 15

InitNotice ==
    /\ stars = [bot |-> MaxStars * TestGiftPrice, userbot |-> MaxStars * TestGiftPrice]
    /\ \E ub \in UserbotChoices, active \in BOOLEAN :
          file = refresh_balance(Config(<<Profile(MaxCount, MaxLimit, "bot")>>, ub, active))
    /\ ui = [pc |-> "notice", last |-> Did("help_callback", "help")]
    /\ wpc = "dead"
    /\ wcfg = NoConfig
    /\ wlist = <<>>
    /\ wi = 1
    /\ wg = 1
    /\ wgifts = <<>>
    /\ wrebound = FALSE
    /\ wflags = NoFlags
    /\ wpass = NewPass(0)
    /\ hist = [writes |-> FALSE]
    /\ rf = NoRefund
    /\ co = NoCalls

\* handlers_main.py:151-183: the test purchase with the executor of the bot.
\* On a false answer the handler sends the text that ends with the status
\* line, then the home menu, and writes nothing to the configuration
buy_test_gift ==
    /\ ui.pc = "notice"
    /\ \E accepted \in BOOLEAN :
          IF accepted /\ CanPay("bot", TestGiftPrice)
          THEN /\ BuyEffect("bot", TestGiftPrice)
               /\ ui' = [ui EXCEPT !.last = Did("buy_test_gift", "bought")]
          ELSE /\ UNCHANGED <<file, stars>>
               /\ ui' = [ui EXCEPT !.last = Did("buy_test_gift",
                                                "status changed to inactive")]
    /\ UNCHANGED <<wvars, hist, rf, co>>

\* handlers_main.py:186-219: the same with the executor of the userbot
buy_test_gift_userbot ==
    /\ ui.pc = "notice"
    /\ \E accepted \in BOOLEAN :
          IF accepted /\ CanPay("userbot", TestGiftPrice)
          THEN /\ BuyEffect("userbot", TestGiftPrice)
               /\ ui' = [ui EXCEPT !.last = Did("buy_test_gift_userbot", "bought")]
          ELSE /\ UNCHANGED <<file, stars>>
               /\ ui' = [ui EXCEPT !.last = Did("buy_test_gift_userbot",
                                                "status changed to inactive")]
    /\ UNCHANGED <<wvars, hist, rf, co>>

\* handlers_main.py:247-262 pressed on the home menu
toggle_active_on_menu ==
    /\ ui.pc = "notice"
    /\ file' = [get_valid_config(file) EXCEPT !.ACTIVE = ~@]
    /\ ui' = [ui EXCEPT !.last = Did("toggle_active_callback",
                                     IF file'.ACTIVE THEN "on" ELSE "off")]
    /\ UNCHANGED <<stars, wvars, hist, rf, co>>

NextNotice == buy_test_gift \/ buy_test_gift_userbot \/ toggle_active_on_menu

SpecNotice == InitNotice /\ [][NextNotice]_vars

\* C40: once the handling of an event that told the owner that the status
\* was changed to inactive has finished, ACTIVE is false in the file.
C40_InactiveNoticeMeansInactive ==
    ui.pc = "notice" /\ ui.last.out = "status changed to inactive" => ~file.ACTIVE

====
